---- MODULE Spec2Model ----
(***************************************************************************)
(* A model of the PSP operating-system abstraction layer of                *)
(* pthreads-embedded (psp_osal.c): threads with emulated per-thread        *)
(* control data, cooperative cancellation by polling, mutexes and          *)
(* semaphores over the kernel's counting semaphore, thread-local storage   *)
(* found through the thread's name, and interrupt-masked atomics.          *)
(*                                                                         *)
(* A thread is at pc "idle" between two calls of the layer; a call that    *)
(* blocks or loops has labels of its own, and its locals are in loc.  The  *)
(* variable hist belongs to the scenarios: it holds what the client        *)
(* threads have done and seen, and no operation of the layer reads it.     *)
(***************************************************************************)
EXTENDS Integers, Sequences, FiniteSets, TLC

(***************************************************************************)
(* Bounds of the model.                                                    *)
(***************************************************************************)
\* rounds of the lock/increment/unlock loop of each worker
MaxN == 2
\* kernel semaphore objects that can be live at once
MaxSema == 4
\* threads that pte_osThreadCreate can have live at once
MaxThreads == 2
\* atomic operations each thread calls
MaxOps == 2

(***************************************************************************)
(* Program constants.                                                      *)
(***************************************************************************)
MAX_PSP_UID == 2048
DEFAULT_STACK_SIZE_BYTES == 4096
PSP_MAX_TLS == 32
\* the maximum count of a cancellation semaphore
CANCEL_SEM_MAX == 255
\* results of the kernel calls (pspkerror.h), as 32-bit signed integers
SCE_KERNEL_ERROR_OK == 0
SCE_KERNEL_ERROR_ERROR == -2147352576
SCE_KERNEL_ERROR_NO_MEMORY == -2147352176
SCE_KERNEL_ERROR_UNKNOWN_THID == -2147352168
SCE_KERNEL_ERROR_UNKNOWN_SEMID == -2147352167
SCE_KERNEL_ERROR_WAIT_TIMEOUT == -2147352152
SCE_KERNEL_ERROR_SEMA_OVF == -2147352146

\* pte_osResult
PTE_OS_OK == "PTE_OS_OK"
PTE_OS_NO_RESOURCES == "PTE_OS_NO_RESOURCES"
PTE_OS_GENERAL_FAILURE == "PTE_OS_GENERAL_FAILURE"
PTE_OS_TIMEOUT == "PTE_OS_TIMEOUT"
PTE_OS_INTERRUPTED == "PTE_OS_INTERRUPTED"

VARIABLES
    sema,      \* kernel counting semaphores, by uid
    kthread,   \* kernel thread objects, by uid
    tls,       \* the heap's TLS slot tables, by address
    ctrl,      \* the heap's per-thread control blocks (pspThreadData), by address
    glob,      \* the file's static variables
    mem,       \* memory shared by the threads of a scenario
    intr,      \* the processor: interrupt enable flag and the running thread
    now,       \* the clock, in microseconds
    pc,        \* where each thread is
    loc,       \* each thread's local variables, or what its last call returned
    hist       \* the scenario's record of what the client threads did and saw

vars == <<sema, kthread, tls, ctrl, glob, mem, intr, now, pc, loc, hist>>

\* the thread that exists before the layer is initialised has uid 0; the
\* kernel gives the threads it creates the uids 1..MaxThreads
MainThread == 0
Tids == 0..MaxThreads

Min(S) == CHOOSE x \in S : \A y \in S : x <= y

\* the ends of the 32-bit int, and int arithmetic as the MIPS build does it:
\* the sum wraps
INT_MAX == 2147483647
INT_MIN == -2147483647 - 1
AddI32(x, d) ==
    IF d > 0 /\ x > INT_MAX - d THEN INT_MIN + ((d - 1) - (INT_MAX - x))
    ELSE IF d < 0 /\ x < INT_MIN - d THEN INT_MAX - ((-d - 1) - (x - INT_MIN))
    ELSE x + d

NULL == 0

(***************************************************************************)
(* Text: a string is a sequence of characters.  snprintf's %04d and %x,    *)
(* and sscanf's, on the names the file gives to threads.                   *)
(***************************************************************************)
Digits == <<"0", "1", "2", "3", "4", "5", "6", "7", "8", "9",
            "a", "b", "c", "d", "e", "f">>
DecChars == {Digits[i] : i \in 1..10}
HexChars == {Digits[i] : i \in 1..16}
DigitValue(c) == (CHOOSE i \in 1..16 : Digits[i] = c) - 1

RECURSIVE ToBase(_, _)
ToBase(n, b) ==
    IF n < b THEN <<Digits[n + 1]>>
    ELSE ToBase(n \div b, b) \o <<Digits[(n % b) + 1]>>

RECURSIVE PadZero(_, _)
PadZero(s, w) == IF Len(s) >= w THEN s ELSE PadZero(<<"0">> \o s, w)

\* %04d of a number that is not negative, and %x
FormatD04(n) == PadZero(ToBase(n, 10), 4)
FormatX(n) == ToBase(n, 16)

\* snprintf(buf, size, ...) keeps at most size - 1 characters
Snprintf(size, s) == SubSeq(s, 1, Min({Len(s), size - 1}))

RECURSIVE FromBase(_, _)
FromBase(s, b) ==
    IF s = <<>> THEN 0
    ELSE FromBase(SubSeq(s, 1, Len(s) - 1), b) * b + DigitValue(s[Len(s)])

\* how many leading characters of s, at most w, are in the set C
RECURSIVE RunLength(_, _, _)
RunLength(s, C, w) ==
    IF s = <<>> \/ w = 0 \/ s[1] \notin C THEN 0
    ELSE 1 + RunLength(Tail(s), C, w - 1)

IsPrefix(p, s) == Len(s) >= Len(p) /\ SubSeq(s, 1, Len(p)) = p
Drop(s, k) == SubSeq(s, k + 1, Len(s))

PthreadLit == <<"p", "t", "h", "r", "e", "a", "d">>
SepLit == <<"_", "_">>

\* snprintf(threadName, sizeof(threadName), "pthread%04d__%x", threadNum,
\* (unsigned int) pTls): a pointer of the PSP has the width of unsigned int
\* and the cast keeps its value
FormatThreadName(threadNum, pTls) ==
    Snprintf(64, PthreadLit \o FormatD04(threadNum) \o SepLit \o FormatX(pTls))

\* sscanf(name, "pthread%04d__%x", &thrNum, &ptr): the number of conversions
\* made and the values converted (the names here hold neither blanks nor
\* signs, which %d and %x would skip or read)
ScanThreadName(name) ==
    LET none == [numMatches |-> 0, thrNum |-> 0, ptr |-> 0]
        r1 == Drop(name, Len(PthreadLit))
        k == RunLength(r1, DecChars, 4)
        thrNum == FromBase(SubSeq(r1, 1, k), 10)
        r2 == Drop(r1, k)
        r3 == Drop(r2, Len(SepLit))
        h == RunLength(r3, HexChars, Len(r3))
    IN  IF ~IsPrefix(PthreadLit, name) \/ k = 0 THEN none
        ELSE IF ~IsPrefix(SepLit, r2) \/ h = 0
             THEN [numMatches |-> 1, thrNum |-> thrNum, ptr |-> 0]
        ELSE [numMatches |-> 2, thrNum |-> thrNum,
              ptr |-> FromBase(SubSeq(r3, 1, h), 16)]

\* names a thread that was not made by pte_osThreadCreate can have
AmbientNames ==
    { <<"u", "s", "e", "r", "_", "m", "a", "i", "n">>,
      <<"p", "t", "h", "r", "e", "a", "d", "7", "_", "x">> }

(***************************************************************************)
(* The kernel's counting semaphore (sceKernel*Sema), as the file uses it.  *)
(***************************************************************************)
SemaIds == 1..MaxSema
NoSema == [live |-> FALSE, count |-> 0, max |-> 0, name |-> <<>>]

ValidSema(s) == s \in SemaIds /\ sema[s].live

FreeSemaIds == {s \in SemaIds : ~sema[s].live}

\* sceKernelCreateSema: the uid of the new semaphore, or an error when the
\* kernel has no room for it or the call is made to fail
KCreateSema(fail) ==
    IF fail \/ FreeSemaIds = {} THEN SCE_KERNEL_ERROR_NO_MEMORY
    ELSE Min(FreeSemaIds)

SemaAfterCreate(uid, name, init, max) ==
    IF uid \in SemaIds
    THEN [sema EXCEPT ![uid] =
              [live |-> TRUE, count |-> init, max |-> max, name |-> name]]
    ELSE sema

\* sceKernelDeleteSema
SemaAfterDelete(s) ==
    IF ValidSema(s) THEN [sema EXCEPT ![s].live = FALSE] ELSE sema

\* sceKernelWaitSema(s, 1, ...) finds a unit to take
KWaitSemaReady(s) == ValidSema(s) /\ sema[s].count >= 1

SemaAfterWait(s) ==
    IF KWaitSemaReady(s) THEN [sema EXCEPT ![s].count = @ - 1] ELSE sema

\* sceKernelWaitSema(s, 1, &zero): a probe that does not block
KPollSema(s) ==
    IF ~ValidSema(s) THEN SCE_KERNEL_ERROR_UNKNOWN_SEMID
    ELSE IF sema[s].count >= 1 THEN SCE_KERNEL_ERROR_OK
    ELSE SCE_KERNEL_ERROR_WAIT_TIMEOUT

\* sceKernelSignalSema(s, n)
KSignalSema(s, n) ==
    IF ~ValidSema(s) THEN SCE_KERNEL_ERROR_UNKNOWN_SEMID
    ELSE IF sema[s].count + n > sema[s].max THEN SCE_KERNEL_ERROR_SEMA_OVF
    ELSE SCE_KERNEL_ERROR_OK

SemaAfterSignal(s, n) ==
    IF KSignalSema(s, n) = SCE_KERNEL_ERROR_OK
    THEN [sema EXCEPT ![s].count = @ + n]
    ELSE sema

\* sceKernelReferSemaStatus(s, &semInfo): the result, and semInfo.currentCount
KReferSemaStatus(s) ==
    IF ValidSema(s) THEN SCE_KERNEL_ERROR_OK ELSE SCE_KERNEL_ERROR_UNKNOWN_SEMID

SemaCurrentCount(s) == sema[s].count

(***************************************************************************)
(* The kernel's threads.  A thread that was created and not started, or    *)
(* whose entry function has returned, has the status PSP_THREAD_STOPPED.   *)
(***************************************************************************)
NoThread == [live |-> FALSE, name |-> <<>>, status |-> "NONE"]

ValidThread(h) == h \in Tids /\ kthread[h].live

FreeThreadIds == {k \in Tids \ {MainThread} : ~kthread[k].live}

\* sceKernelCreateThread: the uid of the new thread, or the error it is made
\* to fail with ("" when it is not made to fail)
KCreateThread(fault) ==
    IF fault = "noMemory" \/ FreeThreadIds = {} THEN SCE_KERNEL_ERROR_NO_MEMORY
    ELSE IF fault = "createThread" THEN SCE_KERNEL_ERROR_ERROR
    ELSE Min(FreeThreadIds)

\* sceKernelReferThreadRunStatus(h, &info) after memset(&info, 0, ...): the
\* status the caller finds in info
KReferThreadRunStatus(h) ==
    IF ValidThread(h) THEN kthread[h].status ELSE "ZERO"

\* what sceKernelReferThreadRunStatus(h, &info) returns; the callers do not
\* look at it
KReferThreadRunStatusResult(h) ==
    IF ValidThread(h) THEN SCE_KERNEL_ERROR_OK
    ELSE SCE_KERNEL_ERROR_UNKNOWN_THID

\* the names sceKernelReferThreadStatus(h, &thinfo) can leave in thinfo.name:
\* the thread's name, or for a handle that names no thread whatever the
\* uninitialised buffer held
ThreadNameReads(h) ==
    IF ValidThread(h) THEN {kthread[h].name}
    ELSE AmbientNames \cup
         {kthread[k].name : k \in {j \in Tids : kthread[j].name # <<>>}}

(***************************************************************************)
(* The heap: TLS slot tables and control blocks.  malloc gives the lowest  *)
(* free address of the kind; a freed object keeps what it held.            *)
(***************************************************************************)
TlsAddrAt(i) == 2048 * (i + 1) + 160
CtrlAddrAt(i) == 2048 * (i + 1) + 16
TlsAddrs == {TlsAddrAt(i) : i \in 0..MaxThreads}
CtrlAddrs == {CtrlAddrAt(i) : i \in 0..MaxThreads}

Keys == 1..PSP_MAX_TLS
NoTable == [live |-> FALSE, slot |-> [k \in Keys |-> NULL]]
NoCtrl == [live |-> FALSE, entryPoint |-> NULL, argv |-> NULL, cancelSem |-> 0]

FreeTlsAddrs == {a \in TlsAddrs : ~tls[a].live}
FreeCtrlAddrs == {a \in CtrlAddrs : ~ctrl[a].live}

\* malloc(sizeof(pspThreadData)): the address, or NULL
Malloc(fail) ==
    IF fail \/ FreeCtrlAddrs = {} THEN NULL ELSE Min(FreeCtrlAddrs)

\* the values a read of pThreadData->cancelSem can give: the field of a live
\* block, and for a freed block or a pointer to no block whatever is there
CancelSemReads(p) ==
    IF p \in CtrlAddrs /\ ctrl[p].live THEN {ctrl[p].cancelSem}
    ELSE IF p \in CtrlAddrs
         THEN {ctrl[p].cancelSem, SCE_KERNEL_ERROR_UNKNOWN_SEMID}
    ELSE SemaIds \cup {SCE_KERNEL_ERROR_UNKNOWN_SEMID}

(***************************************************************************)
(* The TLS helper (tls-helper): the pool of keys and the slot tables.      *)
(***************************************************************************)
\* pteTlsThreadInit: a new table with every slot empty, or NULL
PteTlsThreadInit(fail) ==
    IF fail \/ FreeTlsAddrs = {} THEN NULL ELSE Min(FreeTlsAddrs)

TlsAfterInit(p) ==
    IF p \in TlsAddrs THEN [tls EXCEPT ![p] = [NoTable EXCEPT !.live = TRUE]]
    ELSE tls

\* pteTlsThreadDestroy
TlsAfterDestroy(p) ==
    IF p \in TlsAddrs THEN [tls EXCEPT ![p].live = FALSE] ELSE tls

\* pteTlsAlloc: the lowest key that is not in use, or none
FreeKeys == Keys \ glob.keysUsed
PteTlsAlloc == IF FreeKeys = {} THEN NULL ELSE Min(FreeKeys)

\* pteTlsSetValue(pTls, key, value)
TlsAfterSet(p, key, value) ==
    IF p \in TlsAddrs /\ key \in Keys
    THEN [tls EXCEPT ![p].slot[key] = value]
    ELSE tls

\* pteTlsGetValue(pTls, key): the slot of a table; the empty value when
\* there is no table
PteTlsGetValue(p, key) ==
    IF p \in TlsAddrs /\ key \in Keys THEN tls[p].slot[key] ELSE NULL

(***************************************************************************)
(* Helper functions: from a thread handle to its table and control block.  *)
(***************************************************************************)
\* TlsStructFromName as it would be if the name were not looked at
TlsStructFromName_Ambient(name) == glob.globalTls

\* TlsStructFromName as it would be without the fallback to the ambient table
TlsStructFromName_NoAmbient(name) ==
    IF ScanThreadName(name).numMatches = 2
    THEN ScanThreadName(name).ptr
    ELSE NULL

\* the table that getTlsStructFromThread finds in a name
TlsStructFromName(name) ==
    IF ScanThreadName(name).numMatches = 2
    THEN ScanThreadName(name).ptr
    ELSE glob.globalTls

\* getTlsStructFromThread(thid): the tables it can return (one, when thid
\* names a thread)
GetTlsStructFromThread(thid) ==
    {TlsStructFromName(n) : n \in ThreadNameReads(thid)}

\* getThreadData(threadHandle): the pointers it can return
GetThreadData(threadHandle) ==
    {PteTlsGetValue(p, glob.threadDataKey) :
        p \in GetTlsStructFromThread(threadHandle)}

\* what a call leaves to its caller once it has returned
Returned(op, result, value) == [op |-> op, result |-> result, value |-> value]

(***************************************************************************)
(* Initialization.                                                         *)
(***************************************************************************)
\* pte_osInit.  fault names the step that is made to fail, "none" for none.
\* Only the failure of malloc is looked at; the table and the semaphore are
\* stored unchecked.
OsInit(t, fault) ==
    LET key == PteTlsAlloc
        pTls == PteTlsThreadInit(fault = "tlsInit")
        pThreadData == Malloc(fault = "malloc")
        cancelSem == KCreateSema(fault = "createSema")
    IN  /\ pc[t] = "idle"
        /\ key # NULL
        /\ glob' = [glob EXCEPT !.keysUsed = @ \cup {key},
                                !.threadDataKey = key,
                                !.globalTls = pTls]
        /\ IF pThreadData = NULL
           THEN /\ tls' = TlsAfterInit(pTls)
                /\ UNCHANGED <<ctrl, sema>>
                /\ loc' = [loc EXCEPT ![t] =
                              Returned("OsInit", PTE_OS_NO_RESOURCES, NULL)]
           ELSE /\ tls' = IF pTls \in TlsAddrs
                          THEN [tls EXCEPT ![pTls] =
                                   [NoTable EXCEPT !.live = TRUE,
                                                   !.slot[key] = pThreadData]]
                          ELSE tls
                /\ ctrl' = [ctrl EXCEPT ![pThreadData] =
                               [live |-> TRUE, entryPoint |-> NULL,
                                argv |-> NULL, cancelSem |-> cancelSem]]
                /\ sema' = SemaAfterCreate(cancelSem,
                               <<"pthread_cancelSemGlobal">>, 0, CANCEL_SEM_MAX)
                /\ loc' = [loc EXCEPT ![t] = Returned("OsInit", PTE_OS_OK, NULL)]
        /\ UNCHANGED <<kthread, mem, intr, now, pc>>

(***************************************************************************)
(* Threads.                                                                *)
(***************************************************************************)
\* if (threadNum++ > MAX_PSP_UID) threadNum = 0; and the same for the
\* counters of mutexes and semaphores
NextCtr(ctr) == IF ctr > MAX_PSP_UID THEN 0 ELSE ctr + 1

ClampStack(stackSize) ==
    IF stackSize < DEFAULT_STACK_SIZE_BYTES
    THEN DEFAULT_STACK_SIZE_BYTES
    ELSE stackSize

\* ThreadCreate as it would be if the control block were not freed when the
\* kernel fails to create the thread
ThreadCreate_KeepBlock(t, entryPoint, stackSize, initialPriority, argv, fault) ==
    LET num == NextCtr(glob.threadNum)
        pTls == PteTlsThreadInit(fault = "tlsInit")
        pThreadData == Malloc(fault = "malloc")
        cancelSem == KCreateSema(fault = "createSema")
        threadName == FormatThreadName(num, pTls)
        threadId == KCreateThread(fault)
        table == [NoTable EXCEPT !.live = TRUE,
                                 !.slot[glob.threadDataKey] = pThreadData]
        block == [live |-> TRUE, entryPoint |-> entryPoint, argv |-> argv,
                  cancelSem |-> cancelSem]
    IN  /\ pc[t] = "idle"
        /\ glob.threadDataKey \in Keys
        /\ glob' = [glob EXCEPT !.threadNum = num]
        /\ IF pTls = NULL
           THEN /\ UNCHANGED <<tls, ctrl, sema, kthread>>
                /\ loc' = [loc EXCEPT ![t] =
                              Returned("ThreadCreate", PTE_OS_NO_RESOURCES, NULL)]
           ELSE IF pThreadData = NULL
           THEN /\ tls' = [tls EXCEPT ![pTls] = NoTable]
                /\ UNCHANGED <<ctrl, sema, kthread>>
                /\ loc' = [loc EXCEPT ![t] =
                              Returned("ThreadCreate", PTE_OS_NO_RESOURCES, NULL)]
           ELSE /\ sema' = SemaAfterCreate(cancelSem,
                               <<"pthread_cancelSem", num>>, 0, CANCEL_SEM_MAX)
                /\ IF threadId < 0
                   THEN /\ tls' = [tls EXCEPT ![pTls] =
                                      [table EXCEPT !.live = FALSE]]
                        /\ ctrl' = [ctrl EXCEPT ![pThreadData] = block]
                        /\ UNCHANGED kthread
                        /\ loc' = [loc EXCEPT ![t] =
                               Returned("ThreadCreate",
                                   IF threadId = SCE_KERNEL_ERROR_NO_MEMORY
                                   THEN PTE_OS_NO_RESOURCES
                                   ELSE PTE_OS_GENERAL_FAILURE, NULL)]
                   ELSE /\ tls' = [tls EXCEPT ![pTls] = table]
                        /\ ctrl' = [ctrl EXCEPT ![pThreadData] = block]
                        /\ kthread' = [kthread EXCEPT ![threadId] =
                               [live |-> TRUE, name |-> threadName,
                                status |-> "PSP_THREAD_STOPPED",
                                priority |-> initialPriority,
                                stackSize |-> ClampStack(stackSize)]]
                        /\ loc' = [loc EXCEPT ![t] =
                               Returned("ThreadCreate", PTE_OS_OK, threadId)]
        /\ UNCHANGED <<mem, intr, now, pc>>

\* pte_osThreadCreate.  fault names the step that is made to fail.  The
\* handle is written to the caller (value) only on success.
ThreadCreate(t, entryPoint, stackSize, initialPriority, argv, fault) ==
    LET num == NextCtr(glob.threadNum)
        pTls == PteTlsThreadInit(fault = "tlsInit")
        pThreadData == Malloc(fault = "malloc")
        cancelSem == KCreateSema(fault = "createSema")
        threadName == FormatThreadName(num, pTls)
        threadId == KCreateThread(fault)
        table == [NoTable EXCEPT !.live = TRUE,
                                 !.slot[glob.threadDataKey] = pThreadData]
        block == [live |-> TRUE, entryPoint |-> entryPoint, argv |-> argv,
                  cancelSem |-> cancelSem]
    IN  /\ pc[t] = "idle"
        /\ glob.threadDataKey \in Keys
        /\ glob' = [glob EXCEPT !.threadNum = num]
        /\ IF pTls = NULL
           THEN /\ UNCHANGED <<tls, ctrl, sema, kthread>>
                /\ loc' = [loc EXCEPT ![t] =
                              Returned("ThreadCreate", PTE_OS_NO_RESOURCES, NULL)]
           ELSE IF pThreadData = NULL
           THEN /\ tls' = [tls EXCEPT ![pTls] = NoTable]
                /\ UNCHANGED <<ctrl, sema, kthread>>
                /\ loc' = [loc EXCEPT ![t] =
                              Returned("ThreadCreate", PTE_OS_NO_RESOURCES, NULL)]
           ELSE /\ sema' = SemaAfterCreate(cancelSem,
                               <<"pthread_cancelSem", num>>, 0, CANCEL_SEM_MAX)
                /\ IF threadId < 0
                   THEN /\ tls' = [tls EXCEPT ![pTls] =
                                      [table EXCEPT !.live = FALSE]]
                        /\ ctrl' = [ctrl EXCEPT ![pThreadData] =
                                       [block EXCEPT !.live = FALSE]]
                        /\ UNCHANGED kthread
                        /\ loc' = [loc EXCEPT ![t] =
                               Returned("ThreadCreate",
                                   IF threadId = SCE_KERNEL_ERROR_NO_MEMORY
                                   THEN PTE_OS_NO_RESOURCES
                                   ELSE PTE_OS_GENERAL_FAILURE, NULL)]
                   ELSE /\ tls' = [tls EXCEPT ![pTls] = table]
                        /\ ctrl' = [ctrl EXCEPT ![pThreadData] = block]
                        /\ kthread' = [kthread EXCEPT ![threadId] =
                               [live |-> TRUE, name |-> threadName,
                                status |-> "PSP_THREAD_STOPPED",
                                priority |-> initialPriority,
                                stackSize |-> ClampStack(stackSize)]]
                        /\ loc' = [loc EXCEPT ![t] =
                               Returned("ThreadCreate", PTE_OS_OK, threadId)]
        /\ UNCHANGED <<mem, intr, now, pc>>

\* pte_osThreadStart: the kernel starts a thread that exists and is stopped;
\* the result of sceKernelStartThread is not looked at
ThreadStart(t, osThreadHandle) ==
    /\ pc[t] = "idle"
    /\ IF ValidThread(osThreadHandle)
          /\ kthread[osThreadHandle].status = "PSP_THREAD_STOPPED"
       THEN /\ kthread' = [kthread EXCEPT
                              ![osThreadHandle].status = "PSP_THREAD_RUNNING"]
            /\ pc' = [pc EXCEPT ![osThreadHandle] = "entry"]
       ELSE UNCHANGED <<kthread, pc>>
    /\ loc' = [loc EXCEPT ![t] = Returned("ThreadStart", PTE_OS_OK, NULL)]
    /\ UNCHANGED <<sema, tls, ctrl, glob, mem, intr, now>>

\* pspStubThreadEntry: the new thread finds its control block and calls the
\* entry point stored there with the argument stored there
StubThreadEntry(k) ==
    /\ pc[k] = "entry"
    /\ \E pThreadData \in GetThreadData(k) :
          /\ pThreadData \in CtrlAddrs
          /\ loc' = [loc EXCEPT ![k] =
                        [op |-> "entry",
                         entryPoint |-> ctrl[pThreadData].entryPoint,
                         argv |-> ctrl[pThreadData].argv]]
    /\ pc' = [pc EXCEPT ![k] = "idle"]
    /\ UNCHANGED <<sema, kthread, tls, ctrl, glob, mem, intr, now>>

\* the entry point returns: the kernel stops the thread
EntryReturn(k, result) ==
    /\ pc[k] = "idle"
    /\ k # MainThread
    /\ kthread' = [kthread EXCEPT ![k].status = "PSP_THREAD_STOPPED"]
    /\ pc' = [pc EXCEPT ![k] = "stopped"]
    /\ loc' = [loc EXCEPT ![k] = Returned("entry", result, NULL)]
    /\ UNCHANGED <<sema, tls, ctrl, glob, mem, intr, now>>

\* ThreadDelete as it would be without the release of the slot table
ThreadDelete_KeepTable(t, handle) ==
    /\ pc[t] = "idle"
    /\ \E pThreadData \in GetThreadData(handle) :
          \E cancelSem \in CancelSemReads(pThreadData) :
             /\ sema' = SemaAfterDelete(cancelSem)
             /\ ctrl' = IF pThreadData \in CtrlAddrs
                        THEN [ctrl EXCEPT ![pThreadData].live = FALSE]
                        ELSE ctrl
    /\ IF ValidThread(handle) /\ kthread[handle].status = "PSP_THREAD_STOPPED"
       THEN /\ kthread' = [kthread EXCEPT ![handle].live = FALSE]
            /\ pc' = [pc EXCEPT ![handle] = "none"]
       ELSE UNCHANGED <<kthread, pc>>
    /\ loc' = [loc EXCEPT ![t] = Returned("ThreadDelete", PTE_OS_OK, NULL)]
    /\ UNCHANGED <<tls, glob, mem, intr, now>>

\* pte_osThreadDelete.  The kernel deletes only a thread that is stopped;
\* the results of the kernel calls are not looked at.
ThreadDelete(t, handle) ==
    /\ pc[t] = "idle"
    /\ \E pTls \in GetTlsStructFromThread(handle),
          pThreadData \in GetThreadData(handle) :
          \E cancelSem \in CancelSemReads(pThreadData) :
             /\ sema' = SemaAfterDelete(cancelSem)
             /\ ctrl' = IF pThreadData \in CtrlAddrs
                        THEN [ctrl EXCEPT ![pThreadData].live = FALSE]
                        ELSE ctrl
             /\ tls' = TlsAfterDestroy(pTls)
    /\ IF ValidThread(handle) /\ kthread[handle].status = "PSP_THREAD_STOPPED"
       THEN /\ kthread' = [kthread EXCEPT ![handle].live = FALSE]
            /\ pc' = [pc EXCEPT ![handle] = "none"]
       ELSE UNCHANGED <<kthread, pc>>
    /\ loc' = [loc EXCEPT ![t] = Returned("ThreadDelete", PTE_OS_OK, NULL)]
    /\ UNCHANGED <<glob, mem, intr, now>>

\* pte_osThreadExitAndDelete: pte_osThreadDelete(handle), and then the
\* calling thread ends and is deleted by sceKernelExitDeleteThread; the call
\* does not return
ThreadExitAndDelete(t, handle) ==
    /\ pc[t] = "idle"
    /\ \E pTls \in GetTlsStructFromThread(handle),
          pThreadData \in GetThreadData(handle) :
          \E cancelSem \in CancelSemReads(pThreadData) :
             /\ sema' = SemaAfterDelete(cancelSem)
             /\ ctrl' = IF pThreadData \in CtrlAddrs
                        THEN [ctrl EXCEPT ![pThreadData].live = FALSE]
                        ELSE ctrl
             /\ tls' = TlsAfterDestroy(pTls)
    /\ LET deleted == ValidThread(handle)
                          /\ kthread[handle].status = "PSP_THREAD_STOPPED"
           afterDelete == IF deleted
                          THEN [kthread EXCEPT ![handle].live = FALSE]
                          ELSE kthread
           pcAfterDelete == IF deleted
                            THEN [pc EXCEPT ![handle] = "none"]
                            ELSE pc
       IN  /\ kthread' = [afterDelete EXCEPT ![t].live = FALSE]
           /\ pc' = [pcAfterDelete EXCEPT ![t] = "none"]
    /\ loc' = [loc EXCEPT ![t] = Returned("", "", NULL)]
    /\ UNCHANGED <<glob, mem, intr, now>>

(***************************************************************************)
(* Cancellation.                                                           *)
(***************************************************************************)
\* ThreadCancel as it would be if two units were posted
ThreadCancel_Two(t, threadHandle) ==
    /\ pc[t] = "idle"
    /\ \E pThreadData \in GetThreadData(threadHandle) :
          \E cancelSem \in CancelSemReads(pThreadData) :
             /\ sema' = SemaAfterSignal(cancelSem, 2)
             /\ loc' = [loc EXCEPT ![t] =
                   Returned("ThreadCancel",
                       IF KSignalSema(cancelSem, 2) = SCE_KERNEL_ERROR_OK
                       THEN PTE_OS_OK
                       ELSE PTE_OS_GENERAL_FAILURE, NULL)]
    /\ UNCHANGED <<kthread, tls, ctrl, glob, mem, intr, now, pc>>

\* pte_osThreadCancel: one unit is posted to the target's cancellation
\* semaphore; nothing of the target thread itself is touched
ThreadCancel(t, threadHandle) ==
    /\ pc[t] = "idle"
    /\ \E pThreadData \in GetThreadData(threadHandle) :
          \E cancelSem \in CancelSemReads(pThreadData) :
             /\ sema' = SemaAfterSignal(cancelSem, 1)
             /\ loc' = [loc EXCEPT ![t] =
                   Returned("ThreadCancel",
                       IF KSignalSema(cancelSem, 1) = SCE_KERNEL_ERROR_OK
                       THEN PTE_OS_OK
                       ELSE PTE_OS_GENERAL_FAILURE, NULL)]
    /\ UNCHANGED <<kthread, tls, ctrl, glob, mem, intr, now, pc>>

\* what pte_osThreadCheckCancel answers for a control block and the
\* cancellation semaphore read from it
CheckCancelResult(pThreadData, cancelSem) ==
    IF pThreadData # NULL
    THEN IF KReferSemaStatus(cancelSem) = SCE_KERNEL_ERROR_OK
         THEN IF SemaCurrentCount(cancelSem) > 0
              THEN PTE_OS_INTERRUPTED
              ELSE PTE_OS_OK
         ELSE PTE_OS_GENERAL_FAILURE
    ELSE PTE_OS_GENERAL_FAILURE

\* ThreadCheckCancel as it would be if the semaphore were waited on with a
\* timeout of zero, which takes the unit
ThreadCheckCancel_Consume(t, threadHandle) ==
    /\ pc[t] = "idle"
    /\ \E pThreadData \in GetThreadData(threadHandle) :
          \E cancelSem \in
                (IF pThreadData = NULL THEN {NULL}
                 ELSE CancelSemReads(pThreadData)) :
             /\ loc' = [loc EXCEPT ![t] =
                           Returned("ThreadCheckCancel",
                                    CheckCancelResult(pThreadData, cancelSem),
                                    NULL)]
             /\ sema' = SemaAfterWait(cancelSem)
    /\ UNCHANGED <<kthread, tls, ctrl, glob, mem, intr, now, pc>>

\* pte_osThreadCheckCancel: the semaphore is looked at, not waited on
ThreadCheckCancel(t, threadHandle) ==
    /\ pc[t] = "idle"
    /\ \E pThreadData \in GetThreadData(threadHandle) :
          \E cancelSem \in
                (IF pThreadData = NULL THEN {NULL}
                 ELSE CancelSemReads(pThreadData)) :
             loc' = [loc EXCEPT ![t] =
                        Returned("ThreadCheckCancel",
                                 CheckCancelResult(pThreadData, cancelSem), NULL)]
    /\ UNCHANGED <<sema, kthread, tls, ctrl, glob, mem, intr, now, pc>>

(***************************************************************************)
(* The cancellable wait: a loop of probes with a delay between them.       *)
(***************************************************************************)
\* the clock's microseconds in one step of the model's time, the polling
\* delay in such steps, and the time at which the clock of the model stops
TickUs == 500
PollTicks == 3
MaxTime == 4500
POLLING_DELAY_IN_us == PollTicks * TickUs

\* CancelProbe as it would be if a count of one were not taken for a
\* cancellation
CancelProbe_OffByOne(pThreadData, cancelSem) ==
    IF pThreadData # NULL
    THEN IF KReferSemaStatus(cancelSem) = SCE_KERNEL_ERROR_OK
         THEN IF SemaCurrentCount(cancelSem) > 1
              THEN PTE_OS_INTERRUPTED
              ELSE "sleep"
         ELSE PTE_OS_GENERAL_FAILURE
    ELSE "spin"

\* the second half of an iteration, shared by both loops: the caller's own
\* cancellation semaphore is looked at; "sleep" stands for
\* sceKernelDelayThread(POLLING_DELAY_IN_us) and "spin" for going round
\* the loop at once, as happens when there is no control block
CancelProbe(pThreadData, cancelSem) ==
    IF pThreadData # NULL
    THEN IF KReferSemaStatus(cancelSem) = SCE_KERNEL_ERROR_OK
         THEN IF SemaCurrentCount(cancelSem) > 0
              THEN PTE_OS_INTERRUPTED
              ELSE "sleep"
         ELSE PTE_OS_GENERAL_FAILURE
    ELSE "spin"

\* one iteration of the loop of pte_osThreadWaitForEnd with the locals f
WaitForEndStep(f, cancelSem) ==
    IF KReferThreadRunStatus(f.threadHandle) = "PSP_THREAD_STOPPED"
    THEN PTE_OS_OK
    ELSE CancelProbe(f.pThreadData, cancelSem)

\* CancellablePendStep as it would be if the timeout were looked at before
\* the semaphore
CancellablePendStep_TimeoutFirst(f, cancelSem) ==
    IF f.timeoutEnabled /\ (now - f.start_time) > f.timeout
    THEN PTE_OS_TIMEOUT
    ELSE IF KPollSema(f.semHandle) = SCE_KERNEL_ERROR_OK
    THEN PTE_OS_OK
    ELSE CancelProbe(f.pThreadData, cancelSem)

\* CancellablePendStep as it would be if the cancellation were looked at
\* before the timeout
CancellablePendStep_CancelFirst(f, cancelSem) ==
    IF KPollSema(f.semHandle) = SCE_KERNEL_ERROR_OK
    THEN PTE_OS_OK
    ELSE IF CancelProbe(f.pThreadData, cancelSem) = PTE_OS_INTERRUPTED
    THEN PTE_OS_INTERRUPTED
    ELSE IF f.timeoutEnabled /\ (now - f.start_time) > f.timeout
    THEN PTE_OS_TIMEOUT
    ELSE CancelProbe(f.pThreadData, cancelSem)

\* one iteration of the loop of pte_osSemaphoreCancellablePend with the
\* locals f: the semaphore first, then the timeout, then the cancellation
CancellablePendStep(f, cancelSem) ==
    IF KPollSema(f.semHandle) = SCE_KERNEL_ERROR_OK
    THEN PTE_OS_OK
    ELSE IF f.timeoutEnabled /\ (now - f.start_time) > f.timeout
    THEN PTE_OS_TIMEOUT
    ELSE CancelProbe(f.pThreadData, cancelSem)

\* a thread in one of the two loops makes its next probe: at once when it
\* went round without a delay, and when its delay is over otherwise
ProbeDue(t) == loc[t].spin \/ now >= loc[t].wake

\* the locals after an iteration that did not leave the loop
AfterIteration(f, outcome) ==
    IF outcome = "sleep"
    THEN [f EXCEPT !.wake = now + POLLING_DELAY_IN_us, !.spin = FALSE]
    ELSE [f EXCEPT !.spin = TRUE]

\* pte_osThreadWaitForEnd is entered: the caller's control block is found
WaitForEndCall(t, threadHandle) ==
    /\ pc[t] = "idle"
    /\ \E pThreadData \in GetThreadData(t) :
          loc' = [loc EXCEPT ![t] =
                     [op |-> "ThreadWaitForEnd", threadHandle |-> threadHandle,
                      pThreadData |-> pThreadData, wake |-> now, spin |-> FALSE]]
    /\ pc' = [pc EXCEPT ![t] = "ThreadWaitForEnd"]
    /\ UNCHANGED <<sema, kthread, tls, ctrl, glob, mem, intr, now>>

\* one iteration of its loop
WaitForEndPoll(t) ==
    /\ pc[t] = "ThreadWaitForEnd"
    /\ ProbeDue(t)
    /\ \E cancelSem \in
            (IF loc[t].pThreadData = NULL THEN {NULL}
             ELSE CancelSemReads(loc[t].pThreadData)) :
          LET outcome == WaitForEndStep(loc[t], cancelSem)
          IN  IF outcome \in {"sleep", "spin"}
              THEN /\ loc' = [loc EXCEPT ![t] = AfterIteration(@, outcome)]
                   /\ UNCHANGED pc
              ELSE /\ loc' = [loc EXCEPT ![t] =
                                 Returned("ThreadWaitForEnd", outcome, NULL)]
                   /\ pc' = [pc EXCEPT ![t] = "idle"]
    /\ UNCHANGED <<sema, kthread, tls, ctrl, glob, mem, intr, now>>

\* SemaphoreCancellablePendCall as it would be if the milliseconds were not
\* made microseconds
SemaphoreCancellablePendCall_Msecs(t, semHandle, pTimeout) ==
    /\ pc[t] = "idle"
    /\ \E pThreadData \in GetThreadData(t) :
          loc' = [loc EXCEPT ![t] =
                     [op |-> "SemaphoreCancellablePend", semHandle |-> semHandle,
                      pThreadData |-> pThreadData, start_time |-> now,
                      timeout |-> IF pTimeout = <<>> THEN 0 ELSE pTimeout[1],
                      timeoutEnabled |-> pTimeout # <<>>,
                      wake |-> now, spin |-> FALSE]]
    /\ pc' = [pc EXCEPT ![t] = "SemaphoreCancellablePend"]
    /\ UNCHANGED <<sema, kthread, tls, ctrl, glob, mem, intr, now>>

\* pte_osSemaphoreCancellablePend is entered.  pTimeout is <<>> for a null
\* pointer and <<ms>> for a pointer to ms milliseconds; clock() counts
\* microseconds.
SemaphoreCancellablePendCall(t, semHandle, pTimeout) ==
    /\ pc[t] = "idle"
    /\ \E pThreadData \in GetThreadData(t) :
          loc' = [loc EXCEPT ![t] =
                     [op |-> "SemaphoreCancellablePend", semHandle |-> semHandle,
                      pThreadData |-> pThreadData, start_time |-> now,
                      timeout |-> IF pTimeout = <<>> THEN 0
                                  ELSE pTimeout[1] * 1000,
                      timeoutEnabled |-> pTimeout # <<>>,
                      wake |-> now, spin |-> FALSE]]
    /\ pc' = [pc EXCEPT ![t] = "SemaphoreCancellablePend"]
    /\ UNCHANGED <<sema, kthread, tls, ctrl, glob, mem, intr, now>>

\* SemaphoreCancellablePendPoll as it would be if the probe looked at the
\* count of the semaphore and left it as it is
SemaphoreCancellablePendPoll_Look(t) ==
    /\ pc[t] = "SemaphoreCancellablePend"
    /\ ProbeDue(t)
    /\ \E cancelSem \in
            (IF loc[t].pThreadData = NULL THEN {NULL}
             ELSE CancelSemReads(loc[t].pThreadData)) :
          LET outcome == CancellablePendStep(loc[t], cancelSem)
          IN  IF outcome \in {"sleep", "spin"}
              THEN /\ loc' = [loc EXCEPT ![t] = AfterIteration(@, outcome)]
                   /\ UNCHANGED pc
              ELSE /\ loc' = [loc EXCEPT ![t] =
                                 Returned("SemaphoreCancellablePend", outcome, NULL)]
                   /\ pc' = [pc EXCEPT ![t] = "idle"]
    /\ UNCHANGED <<sema, kthread, tls, ctrl, glob, mem, intr, now>>

\* one iteration of its loop; a probe that succeeds takes the unit
SemaphoreCancellablePendPoll(t) ==
    /\ pc[t] = "SemaphoreCancellablePend"
    /\ ProbeDue(t)
    /\ \E cancelSem \in
            (IF loc[t].pThreadData = NULL THEN {NULL}
             ELSE CancelSemReads(loc[t].pThreadData)) :
          LET outcome == CancellablePendStep(loc[t], cancelSem)
          IN  IF outcome \in {"sleep", "spin"}
              THEN /\ loc' = [loc EXCEPT ![t] = AfterIteration(@, outcome)]
                   /\ UNCHANGED pc
              ELSE /\ loc' = [loc EXCEPT ![t] =
                                 Returned("SemaphoreCancellablePend", outcome, NULL)]
                   /\ pc' = [pc EXCEPT ![t] = "idle"]
    /\ sema' = SemaAfterWait(loc[t].semHandle)
    /\ UNCHANGED <<kthread, tls, ctrl, glob, mem, intr, now>>

(***************************************************************************)
(* A blocking sceKernelWaitSema(handle, 1, pTimeoutUsecs).  The caller is  *)
(* at a label of its own while it waits, with the time at which the        *)
(* kernel gives up in deadline (hasDeadline is FALSE for a null pointer).  *)
(***************************************************************************)
\* the results with which the kernel can end the wait of thread t now; none
\* while the thread stays blocked
KWaitSemaResults(t) ==
    IF ~ValidSema(loc[t].handle) THEN {SCE_KERNEL_ERROR_UNKNOWN_SEMID}
    ELSE IF sema[loc[t].handle].count >= 1 THEN {SCE_KERNEL_ERROR_OK}
    ELSE IF loc[t].hasDeadline /\ now >= loc[t].deadline
    THEN {SCE_KERNEL_ERROR_WAIT_TIMEOUT}
    ELSE {}

\* the locals of a thread that enters such a wait
WaitFrame(op, handle, pTimeoutMsecs) ==
    [op |-> op, handle |-> handle,
     hasDeadline |-> pTimeoutMsecs # <<>>,
     deadline |-> IF pTimeoutMsecs = <<>> THEN 0
                  ELSE now + pTimeoutMsecs[1] * 1000]

Blocked(t) ==
    /\ pc[t] \in {"MutexLock", "MutexTimedLock", "SemaphorePend"}
    /\ KWaitSemaResults(t) = {}

(***************************************************************************)
(* Mutexes.                                                                *)
(***************************************************************************)
\* pte_osMutexCreate: a semaphore of count 1 and maximum 1; what
\* sceKernelCreateSema returns is handed to the caller unchecked
MutexCreate(t, fail) ==
    LET ctr == NextCtr(glob.mutexCtr)
        handle == KCreateSema(fail)
    IN  /\ pc[t] = "idle"
        /\ glob' = [glob EXCEPT !.mutexCtr = ctr]
        /\ sema' = SemaAfterCreate(handle, <<"mutex", ctr>>, 1, 1)
        /\ loc' = [loc EXCEPT ![t] = Returned("MutexCreate", PTE_OS_OK, handle)]
        /\ UNCHANGED <<kthread, tls, ctrl, mem, intr, now, pc>>

\* pte_osMutexDelete
MutexDelete(t, handle) ==
    /\ pc[t] = "idle"
    /\ sema' = SemaAfterDelete(handle)
    /\ loc' = [loc EXCEPT ![t] = Returned("MutexDelete", PTE_OS_OK, NULL)]
    /\ UNCHANGED <<kthread, tls, ctrl, glob, mem, intr, now, pc>>

\* pte_osMutexLock is entered: sceKernelWaitSema(handle, 1, NULL)
MutexLockCall(t, handle) ==
    /\ pc[t] = "idle"
    /\ loc' = [loc EXCEPT ![t] = WaitFrame("MutexLock", handle, <<>>)]
    /\ pc' = [pc EXCEPT ![t] = "MutexLock"]
    /\ UNCHANGED <<sema, kthread, tls, ctrl, glob, mem, intr, now>>

\* MutexLockReturn as it would be with a wait that does not block (a
\* timeout of zero in place of the null pointer)
MutexLockReturn_Probe(t) ==
    /\ pc[t] = "MutexLock"
    /\ loc' = [loc EXCEPT ![t] = Returned("MutexLock", PTE_OS_OK, NULL)]
    /\ sema' = SemaAfterWait(loc[t].handle)
    /\ pc' = [pc EXCEPT ![t] = "idle"]
    /\ UNCHANGED <<kthread, tls, ctrl, glob, mem, intr, now>>

\* the kernel ends the wait, and pte_osMutexLock returns OK whatever the
\* kernel's result was
MutexLockReturn(t) ==
    /\ pc[t] = "MutexLock"
    /\ \E status \in KWaitSemaResults(t) :
          loc' = [loc EXCEPT ![t] = Returned("MutexLock", PTE_OS_OK, NULL)]
    /\ sema' = SemaAfterWait(loc[t].handle)
    /\ pc' = [pc EXCEPT ![t] = "idle"]
    /\ UNCHANGED <<kthread, tls, ctrl, glob, mem, intr, now>>

\* pte_osMutexTimedLock is entered
MutexTimedLockCall(t, handle, timeoutMsecs) ==
    /\ pc[t] = "idle"
    /\ loc' = [loc EXCEPT ![t] =
                  WaitFrame("MutexTimedLock", handle, <<timeoutMsecs>>)]
    /\ pc' = [pc EXCEPT ![t] = "MutexTimedLock"]
    /\ UNCHANGED <<sema, kthread, tls, ctrl, glob, mem, intr, now>>

\* MutexTimedLockReturn as it would be if the kernel's result were read as
\* pte_osSemaphorePend reads it
MutexTimedLockReturn_AsPend(t) ==
    /\ pc[t] = "MutexTimedLock"
    /\ \E status \in KWaitSemaResults(t) :
          loc' = [loc EXCEPT ![t] =
                     Returned("MutexTimedLock",
                              IF status = SCE_KERNEL_ERROR_OK THEN PTE_OS_OK
                              ELSE IF status = SCE_KERNEL_ERROR_WAIT_TIMEOUT
                              THEN PTE_OS_TIMEOUT
                              ELSE PTE_OS_GENERAL_FAILURE,
                              NULL)]
    /\ sema' = SemaAfterWait(loc[t].handle)
    /\ pc' = [pc EXCEPT ![t] = "idle"]
    /\ UNCHANGED <<kthread, tls, ctrl, glob, mem, intr, now>>

\* the kernel ends the wait: every error is taken for a timeout
MutexTimedLockReturn(t) ==
    /\ pc[t] = "MutexTimedLock"
    /\ \E status \in KWaitSemaResults(t) :
          loc' = [loc EXCEPT ![t] =
                     Returned("MutexTimedLock",
                              IF status < 0 THEN PTE_OS_TIMEOUT ELSE PTE_OS_OK,
                              NULL)]
    /\ sema' = SemaAfterWait(loc[t].handle)
    /\ pc' = [pc EXCEPT ![t] = "idle"]
    /\ UNCHANGED <<kthread, tls, ctrl, glob, mem, intr, now>>

\* MutexUnlock as it would be if the kernel's result were passed on to the
\* caller
MutexUnlock_Checked(t, handle) ==
    /\ pc[t] = "idle"
    /\ sema' = SemaAfterSignal(handle, 1)
    /\ loc' = [loc EXCEPT ![t] =
                  Returned("MutexUnlock",
                      IF KSignalSema(handle, 1) = SCE_KERNEL_ERROR_OK
                      THEN PTE_OS_OK
                      ELSE PTE_OS_GENERAL_FAILURE, NULL)]
    /\ UNCHANGED <<kthread, tls, ctrl, glob, mem, intr, now, pc>>

\* pte_osMutexUnlock: sceKernelSignalSema(handle, 1), its result not looked at
MutexUnlock(t, handle) ==
    /\ pc[t] = "idle"
    /\ sema' = SemaAfterSignal(handle, 1)
    /\ loc' = [loc EXCEPT ![t] = Returned("MutexUnlock", PTE_OS_OK, NULL)]
    /\ UNCHANGED <<kthread, tls, ctrl, glob, mem, intr, now, pc>>

(***************************************************************************)
(* Semaphores.                                                             *)
(***************************************************************************)
SEM_VALUE_MAX == INT_MAX

\* pte_osSemaphoreCreate
SemaphoreCreate(t, initialValue, fail) ==
    LET ctr == NextCtr(glob.semCtr)
        handle == KCreateSema(fail)
    IN  /\ pc[t] = "idle"
        /\ glob' = [glob EXCEPT !.semCtr = ctr]
        /\ sema' = SemaAfterCreate(handle, <<"pthread_sem", ctr>>,
                                   initialValue, SEM_VALUE_MAX)
        /\ loc' = [loc EXCEPT ![t] =
                      Returned("SemaphoreCreate", PTE_OS_OK, handle)]
        /\ UNCHANGED <<kthread, tls, ctrl, mem, intr, now, pc>>

\* pte_osSemaphoreDelete
SemaphoreDelete(t, handle) ==
    /\ pc[t] = "idle"
    /\ sema' = SemaAfterDelete(handle)
    /\ loc' = [loc EXCEPT ![t] = Returned("SemaphoreDelete", PTE_OS_OK, NULL)]
    /\ UNCHANGED <<kthread, tls, ctrl, glob, mem, intr, now, pc>>

\* pte_osSemaphorePost: sceKernelSignalSema(handle, count)
SemaphorePost(t, handle, count) ==
    /\ pc[t] = "idle"
    /\ sema' = SemaAfterSignal(handle, count)
    /\ loc' = [loc EXCEPT ![t] = Returned("SemaphorePost", PTE_OS_OK, NULL)]
    /\ UNCHANGED <<kthread, tls, ctrl, glob, mem, intr, now, pc>>

\* pte_osSemaphorePend is entered
SemaphorePendCall(t, handle, pTimeoutMsecs) ==
    /\ pc[t] = "idle"
    /\ loc' = [loc EXCEPT ![t] = WaitFrame("SemaphorePend", handle, pTimeoutMsecs)]
    /\ pc' = [pc EXCEPT ![t] = "SemaphorePend"]
    /\ UNCHANGED <<sema, kthread, tls, ctrl, glob, mem, intr, now>>

\* what pte_osSemaphorePend makes of the kernel's result
PendResult(status) ==
    IF status = SCE_KERNEL_ERROR_OK THEN PTE_OS_OK
    ELSE IF status = SCE_KERNEL_ERROR_WAIT_TIMEOUT THEN PTE_OS_TIMEOUT
    ELSE PTE_OS_GENERAL_FAILURE

\* the kernel ends the wait
SemaphorePendReturn(t) ==
    /\ pc[t] = "SemaphorePend"
    /\ \E status \in KWaitSemaResults(t) :
          loc' = [loc EXCEPT ![t] =
                     Returned("SemaphorePend", PendResult(status), NULL)]
    /\ sema' = SemaAfterWait(loc[t].handle)
    /\ pc' = [pc EXCEPT ![t] = "idle"]
    /\ UNCHANGED <<kthread, tls, ctrl, glob, mem, intr, now>>

(***************************************************************************)
(* Thread local storage.                                                   *)
(***************************************************************************)
\* pte_osTlsSetValue: the value goes to the calling thread's table
TlsSetValue(t, key, value) ==
    /\ pc[t] = "idle"
    /\ \E pTls \in GetTlsStructFromThread(t) :
          /\ tls' = TlsAfterSet(pTls, key, value)
          /\ loc' = [loc EXCEPT ![t] =
                        Returned("TlsSetValue",
                                 IF pTls # NULL THEN PTE_OS_OK
                                 ELSE PTE_OS_GENERAL_FAILURE, NULL)]
    /\ UNCHANGED <<sema, kthread, ctrl, glob, mem, intr, now, pc>>

\* pte_osTlsGetValue: the value comes from the calling thread's table
TlsGetValue(t, index) ==
    /\ pc[t] = "idle"
    /\ \E pTls \in GetTlsStructFromThread(t) :
          loc' = [loc EXCEPT ![t] =
                     Returned("TlsGetValue", PTE_OS_OK, PteTlsGetValue(pTls, index))]
    /\ UNCHANGED <<sema, kthread, tls, ctrl, glob, mem, intr, now, pc>>

\* pte_osTlsAlloc: a key from the pool, the same for every table
TlsAlloc(t) ==
    /\ pc[t] = "idle"
    /\ glob' = IF PteTlsAlloc = NULL THEN glob
               ELSE [glob EXCEPT !.keysUsed = @ \cup {PteTlsAlloc}]
    /\ loc' = [loc EXCEPT ![t] =
                  Returned("TlsAlloc",
                           IF PteTlsAlloc = NULL THEN PTE_OS_NO_RESOURCES
                           ELSE PTE_OS_OK, PteTlsAlloc)]
    /\ UNCHANGED <<sema, kthread, tls, ctrl, mem, intr, now, pc>>

\* pte_osTlsFree
TlsFree(t, index) ==
    /\ pc[t] = "idle"
    /\ glob' = [glob EXCEPT !.keysUsed = @ \ {index}]
    /\ loc' = [loc EXCEPT ![t] = Returned("TlsFree", PTE_OS_OK, NULL)]
    /\ UNCHANGED <<sema, kthread, tls, ctrl, mem, intr, now, pc>>

(***************************************************************************)
(* Atomic operations.  The processor has one core: while interrupts are    *)
(* disabled the running thread is not preempted, so only the thread that   *)
(* disabled them takes steps.  Each access to the location is a step.      *)
(***************************************************************************)
AtomicOps == {"AtomicExchange", "AtomicCompareExchange", "AtomicExchangeAdd",
              "AtomicDecrement", "AtomicIncrement"}

\* thread t can be the one that runs
CanRun(t) == intr.enabled \/ intr.cpu = t

\* an atomic operation on the location p is entered, with its arguments
AtomicCall(t, op, p, a, b) ==
    /\ pc[t] = "idle"
    /\ CanRun(t)
    /\ op \in AtomicOps
    /\ loc' = [loc EXCEPT ![t] =
                  [op |-> op, p |-> p, a |-> a, b |-> b,
                   intc |-> TRUE, tmp |-> 0, val |-> 0]]
    /\ pc' = [pc EXCEPT ![t] = "intDisable"]
    /\ intr' = [intr EXCEPT !.cpu = t]
    /\ UNCHANGED <<sema, kthread, tls, ctrl, glob, mem, now>>

\* AtomicDisable as it would be if the state were saved and interrupts
\* stayed on
AtomicDisable_NoMask(t) ==
    /\ pc[t] = "intDisable"
    /\ CanRun(t)
    /\ loc' = [loc EXCEPT ![t].intc = intr.enabled]
    /\ intr' = [intr EXCEPT !.cpu = t]
    /\ pc' = [pc EXCEPT ![t] = "load"]
    /\ UNCHANGED <<sema, kthread, tls, ctrl, glob, mem, now>>

\* intc = pspSdkDisableInterrupts(): the state found is kept in intc
AtomicDisable(t) ==
    /\ pc[t] = "intDisable"
    /\ CanRun(t)
    /\ loc' = [loc EXCEPT ![t].intc = intr.enabled]
    /\ intr' = [enabled |-> FALSE, cpu |-> t]
    /\ pc' = [pc EXCEPT ![t] = "load"]
    /\ UNCHANGED <<sema, kthread, tls, ctrl, glob, mem, now>>

\* the location is read
AtomicLoad(t) ==
    /\ pc[t] = "load"
    /\ CanRun(t)
    /\ loc' = [loc EXCEPT ![t].tmp = mem[loc[t].p]]
    /\ intr' = [intr EXCEPT !.cpu = t]
    /\ pc' = [pc EXCEPT ![t] = "store"]
    /\ UNCHANGED <<sema, kthread, tls, ctrl, glob, mem, now>>

\* AtomicStored as it would be if pte_osAtomicCompareExchange did not
\* compare
AtomicStored_NoCompare(f) ==
    CASE f.op = "AtomicExchange" -> f.a
      [] f.op = "AtomicCompareExchange" -> f.a
      [] f.op = "AtomicExchangeAdd" -> AddI32(f.tmp, f.a)
      [] f.op = "AtomicDecrement" -> AddI32(f.tmp, -1)
      [] f.op = "AtomicIncrement" -> AddI32(f.tmp, 1)

\* what an operation with the locals f writes after reading tmp
AtomicStored(f) ==
    CASE f.op = "AtomicExchange" -> f.a
      [] f.op = "AtomicCompareExchange" -> IF f.tmp = f.b THEN f.a ELSE f.tmp
      [] f.op = "AtomicExchangeAdd" -> AddI32(f.tmp, f.a)
      [] f.op = "AtomicDecrement" -> AddI32(f.tmp, -1)
      [] f.op = "AtomicIncrement" -> AddI32(f.tmp, 1)

\* the location is written; the operations that return the value found
\* have it in origVal already
AtomicStore(t) ==
    /\ pc[t] = "store"
    /\ CanRun(t)
    /\ mem' = [mem EXCEPT ![loc[t].p] = AtomicStored(loc[t])]
    /\ loc' = [loc EXCEPT ![t].val = loc[t].tmp]
    /\ intr' = [intr EXCEPT !.cpu = t]
    /\ pc' = [pc EXCEPT ![t] =
                 IF loc[t].op \in {"AtomicDecrement", "AtomicIncrement"}
                 THEN "reload" ELSE "intEnable"]
    /\ UNCHANGED <<sema, kthread, tls, ctrl, glob, now>>

\* val = *pdest, in pte_osAtomicDecrement and pte_osAtomicIncrement
AtomicReload(t) ==
    /\ pc[t] = "reload"
    /\ CanRun(t)
    /\ loc' = [loc EXCEPT ![t].val = mem[loc[t].p]]
    /\ intr' = [intr EXCEPT !.cpu = t]
    /\ pc' = [pc EXCEPT ![t] = "intEnable"]
    /\ UNCHANGED <<sema, kthread, tls, ctrl, glob, mem, now>>

\* pspSdkEnableInterrupts(intc), and the operation returns
AtomicEnable(t) ==
    /\ pc[t] = "intEnable"
    /\ CanRun(t)
    /\ intr' = [enabled |-> loc[t].intc, cpu |-> t]
    /\ loc' = [loc EXCEPT ![t] = Returned(loc[t].op, "int", loc[t].val)]
    /\ pc' = [pc EXCEPT ![t] = "idle"]
    /\ UNCHANGED <<sema, kthread, tls, ctrl, glob, mem, now>>

(***************************************************************************)
(* Time.  A probe that is due, and a wait that the kernel can end, happen  *)
(* before the clock moves on; the clock moves by one step, or less to      *)
(* reach the next time at which a delay or a kernel timeout ends.          *)
(***************************************************************************)
Polling(t) == pc[t] \in {"ThreadWaitForEnd", "SemaphoreCancellablePend"}
Waiting(t) == pc[t] \in {"MutexLock", "MutexTimedLock", "SemaphorePend"}

Due(t) ==
    \/ Polling(t) /\ ~loc[t].spin /\ now >= loc[t].wake
    \/ Waiting(t) /\ KWaitSemaResults(t) # {}

Timers ==
    {loc[t].wake : t \in {u \in Tids : Polling(u) /\ ~loc[u].spin}}
        \cup {loc[t].deadline : t \in {u \in Tids : Waiting(u) /\ loc[u].hasDeadline}}

Tick ==
    /\ now < MaxTime
    /\ \A t \in Tids : ~Due(t)
    /\ now' = Min({now + TickUs} \cup {x \in Timers : x > now})
    /\ UNCHANGED <<sema, kthread, tls, ctrl, glob, mem, intr, pc, loc>>

(***************************************************************************)
(* What every scenario starts from: the state of a program that has not    *)
(* called the layer yet.  The statics are as the loader leaves them.       *)
(***************************************************************************)
PlainName == <<"u", "s", "e", "r", "_", "m", "a", "i", "n">>
PlainThread ==
    [live |-> TRUE, name |-> PlainName, status |-> "PSP_THREAD_RUNNING",
     priority |-> 0, stackSize |-> 0]
NoCall == Returned("", "", NULL)

StartState ==
    /\ sema = [s \in SemaIds |-> NoSema]
    /\ tls = [a \in TlsAddrs |-> NoTable]
    /\ ctrl = [a \in CtrlAddrs |-> NoCtrl]
    /\ glob = [threadDataKey |-> 0, globalTls |-> NULL, keysUsed |-> {},
               threadNum |-> 1, mutexCtr |-> 0, semCtr |-> 0]
    /\ intr = [enabled |-> TRUE, cpu |-> MainThread]
    /\ now = 0
    /\ loc = [t \in Tids |-> NoCall]

Workers == Tids \ {MainThread}

(***************************************************************************)
(* Scenario: the workers, threads of the program, each run n rounds of     *)
(* lock / read the counter / write it back plus one / unlock on a mutex    *)
(* that the main thread has made.                                          *)
(***************************************************************************)
InitMutex ==
    /\ StartState
    /\ kthread = [k \in Tids |-> PlainThread]
    /\ pc = [t \in Tids |-> "idle"]
    /\ mem = [counter |-> 0]
    /\ \E n \in 0..MaxN :
          hist = [n |-> n, mutex |-> NULL,
                  phase |-> [t \in Tids |-> IF t = MainThread THEN "create"
                                            ELSE IF n = 0 THEN "done" ELSE "lock"],
                  round |-> [t \in Tids |-> 0],
                  tmp |-> [t \in Tids |-> 0]]

Phase(t, from, to) ==
    /\ hist.phase[t] = from
    /\ hist' = [hist EXCEPT !.phase[t] = to]

M_Create ==
    /\ hist.phase[MainThread] = "create"
    /\ \E fail \in BOOLEAN : MutexCreate(MainThread, fail)
    /\ hist' = [hist EXCEPT !.phase[MainThread] = "done",
                            !.mutex = loc'[MainThread].value]

M_LockCall(t) ==
    /\ hist.phase[MainThread] = "done"
    /\ MutexLockCall(t, hist.mutex)
    /\ Phase(t, "lock", "locking")

M_LockReturn(t) ==
    /\ MutexLockReturn(t)
    /\ Phase(t, "locking", "read")

\* tmp = counter
M_Read(t) ==
    /\ pc[t] = "idle"
    /\ hist.phase[t] = "read"
    /\ hist' = [hist EXCEPT !.phase[t] = "write", !.tmp[t] = mem.counter]
    /\ UNCHANGED <<sema, kthread, tls, ctrl, glob, mem, intr, now, pc, loc>>

\* counter = tmp + 1
M_Write(t) ==
    /\ pc[t] = "idle"
    /\ mem' = [mem EXCEPT !.counter = hist.tmp[t] + 1]
    /\ Phase(t, "write", "unlock")
    /\ UNCHANGED <<sema, kthread, tls, ctrl, glob, intr, now, pc, loc>>

M_Unlock(t) ==
    /\ hist.phase[t] = "unlock"
    /\ MutexUnlock(t, hist.mutex)
    /\ hist' = [hist EXCEPT !.round[t] = @ + 1,
                            !.phase[t] = IF hist.round[t] + 1 < hist.n
                                         THEN "lock" ELSE "done"]

NextMutex ==
    \/ M_Create
    \/ \E t \in Workers : M_LockCall(t)
    \/ \E t \in Workers : M_LockReturn(t)
    \/ \E t \in Workers : M_Read(t)
    \/ \E t \in Workers : M_Write(t)
    \/ \E t \in Workers : M_Unlock(t)

SpecMutex == InitMutex /\ [][NextMutex]_vars

\* the threads between the return of MutexLock and the call of MutexUnlock
InCritical == {t \in Workers : hist.phase[t] \in {"read", "write", "unlock"}}

\* C1: for a mutex that MutexCreate made, at most one thread is between the
\* return of its MutexLock and its call of MutexUnlock, and when every
\* thread has run its n rounds the counter is n times the number of
\* threads (2n for two threads), for every n from 0 and every interleaving.
C1_MutualExclusion ==
    ValidSema(hist.mutex) =>
        /\ Cardinality(InCritical) <= 1
        /\ (\A t \in Workers : hist.phase[t] = "done") =>
               mem.counter = Cardinality(Workers) * hist.n

\* both threads have run MaxN rounds on a mutex that exists, and one had to
\* wait for the other on the way (the counter shows the rounds)
C1_Witness ==
    /\ ValidSema(hist.mutex)
    /\ hist.n = MaxN
    /\ \A t \in Workers : hist.phase[t] = "done" /\ hist.round[t] = MaxN
    /\ mem.counter = Cardinality(Workers) * MaxN

\* a thread is blocked in MutexLock while another is in its critical section
C1_Contention ==
    \E t, u \in Workers :
        /\ t # u
        /\ u \in InCritical
        /\ pc[t] = "MutexLock" /\ Blocked(t)

(***************************************************************************)
(* Scenario: the workers call AtomicIncrement and AtomicDecrement on one   *)
(* location, in any order and with any preemption the processor allows.    *)
(***************************************************************************)
InitialValues == {0, 7, INT_MAX, INT_MIN}

InitAtomic ==
    /\ StartState
    /\ kthread = [k \in Tids |-> PlainThread]
    /\ pc = [t \in Tids |-> "idle"]
    /\ \E v \in InitialValues :
          /\ mem = [x |-> v]
          /\ hist = [v |-> v, incs |-> 0, decs |-> 0,
                     calls |-> [t \in Tids |-> 0]]

A_Call(t, op) ==
    /\ hist.calls[t] < MaxOps
    /\ AtomicCall(t, op, "x", 0, 0)
    /\ hist' = [hist EXCEPT !.calls[t] = @ + 1,
                            !.incs = IF op = "AtomicIncrement" THEN @ + 1 ELSE @,
                            !.decs = IF op = "AtomicDecrement" THEN @ + 1 ELSE @]

NextAtomic ==
    \/ \E t \in Workers : A_Call(t, "AtomicIncrement")
    \/ \E t \in Workers : A_Call(t, "AtomicDecrement")
    \/ \E t \in Workers : AtomicDisable(t) /\ UNCHANGED hist
    \/ \E t \in Workers : AtomicLoad(t) /\ UNCHANGED hist
    \/ \E t \in Workers : AtomicStore(t) /\ UNCHANGED hist
    \/ \E t \in Workers : AtomicReload(t) /\ UNCHANGED hist
    \/ \E t \in Workers : AtomicEnable(t) /\ UNCHANGED hist

SpecAtomic == InitAtomic /\ [][NextAtomic]_vars

\* v + d is an int
FitsInt(v, d) ==
    /\ d > 0 => v <= INT_MAX - d
    /\ d < 0 => v >= INT_MIN - d

Quiescent == \A t \in Workers : pc[t] = "idle"

\* C3: when the K increments and L decrements that concurrent threads have
\* called on a location of initial value v have all returned, the location
\* holds v + K - L (where that is an int), whatever the interleaving; and no
\* step of another thread falls between an operation's read and its write.
C3_AtomicCount ==
    /\ (Quiescent /\ FitsInt(hist.v, hist.incs - hist.decs)) =>
           mem.x = hist.v + (hist.incs - hist.decs)
    /\ \A t \in Workers :
           pc[t] \in {"store"} => mem.x = loc[t].tmp

\* both threads have made all their calls, increments and decrements mixed
C3_Witness ==
    /\ hist.v = 7
    /\ Quiescent
    /\ \A t \in Workers : hist.calls[t] = MaxOps
    /\ hist.incs = MaxOps + 1
    /\ hist.decs = Cardinality(Workers) * MaxOps - hist.incs
    /\ mem.x = hist.v + (hist.incs - hist.decs)

(***************************************************************************)
(* Scenario: the workers call the five atomic operations on one location,  *)
(* with arguments of their choice, in any order and with any preemption    *)
(* the processor allows; interrupts are on or off when they start.         *)
(***************************************************************************)
AtomicArgs == {-1, 0, 7}

\* the arguments an operation is called with: the new value for Exchange,
\* the new value and the comparand for CompareExchange, the addend for
\* ExchangeAdd
ArgsOf(op) ==
    CASE op = "AtomicExchange" -> {<<a, 0>> : a \in AtomicArgs}
      [] op = "AtomicCompareExchange" -> AtomicArgs \X AtomicArgs
      [] op = "AtomicExchangeAdd" -> {<<a, 0>> : a \in AtomicArgs}
      [] OTHER -> {<<0, 0>>}

\* what is recorded of the last operation of a thread: its arguments, the
\* interrupt state it found and the one it left, the value it found in the
\* location, the value the location held after its write, and the value it
\* returned
NoAtomic ==
    [op |-> "", a |-> 0, b |-> 0, done |-> FALSE, intrFound |-> TRUE,
     intrLeft |-> TRUE, x |-> 0, stored |-> 0, ret |-> 0]

InitAtomicOps ==
    /\ sema = [s \in SemaIds |-> NoSema]
    /\ tls = [a \in TlsAddrs |-> NoTable]
    /\ ctrl = [a \in CtrlAddrs |-> NoCtrl]
    /\ glob = [threadDataKey |-> 0, globalTls |-> NULL, keysUsed |-> {},
               threadNum |-> 1, mutexCtr |-> 0, semCtr |-> 0]
    /\ now = 0
    /\ loc = [t \in Tids |-> NoCall]
    /\ kthread = [k \in Tids |-> PlainThread]
    /\ pc = [t \in Tids |-> "idle"]
    /\ \E e \in BOOLEAN : intr = [enabled |-> e, cpu |-> Min(Workers)]
    /\ \E v \in InitialValues : mem = [x |-> v]
    /\ hist = [calls |-> [t \in Tids |-> 0], last |-> [t \in Tids |-> NoAtomic]]

O_Call(t, op, args) ==
    /\ hist.calls[t] < MaxOps
    /\ AtomicCall(t, op, "x", args[1], args[2])
    /\ hist' = [hist EXCEPT
                   !.calls[t] = @ + 1,
                   !.last[t] = [NoAtomic EXCEPT !.op = op, !.a = args[1],
                                                !.b = args[2]]]

O_Disable(t) ==
    /\ AtomicDisable(t)
    /\ hist' = [hist EXCEPT !.last[t].intrFound = intr.enabled]

O_Load(t) ==
    /\ AtomicLoad(t)
    /\ hist' = [hist EXCEPT !.last[t].x = mem.x]

O_Store(t) ==
    /\ AtomicStore(t)
    /\ hist' = [hist EXCEPT !.last[t].stored = mem'.x]

O_Reload(t) ==
    /\ AtomicReload(t)
    /\ UNCHANGED hist

O_Enable(t) ==
    /\ AtomicEnable(t)
    /\ hist' = [hist EXCEPT !.last[t].done = TRUE,
                            !.last[t].intrLeft = intr'.enabled,
                            !.last[t].ret = loc'[t].value]

NextAtomicOps ==
    \/ \E t \in Workers, op \in AtomicOps : \E args \in ArgsOf(op) :
          O_Call(t, op, args)
    \/ \E t \in Workers : O_Disable(t)
    \/ \E t \in Workers : O_Load(t)
    \/ \E t \in Workers : O_Store(t)
    \/ \E t \in Workers : O_Reload(t)
    \/ \E t \in Workers : O_Enable(t)

SpecAtomicOps == InitAtomicOps /\ [][NextAtomicOps]_vars

\* what the operation recorded in c has to store and to return, where the
\* sum is an int
AtomicExpected(c) ==
    CASE c.op = "AtomicExchange" -> [stored |-> c.a, ret |-> c.x]
      [] c.op = "AtomicCompareExchange" ->
            [stored |-> IF c.x = c.b THEN c.a ELSE c.x, ret |-> c.x]
      [] c.op = "AtomicExchangeAdd" -> [stored |-> c.x + c.a, ret |-> c.x]
      [] c.op = "AtomicIncrement" -> [stored |-> c.x + 1, ret |-> c.x + 1]
      [] c.op = "AtomicDecrement" -> [stored |-> c.x - 1, ret |-> c.x - 1]

\* the number an operation adds to the location
AtomicAddend(c) ==
    CASE c.op = "AtomicExchangeAdd" -> c.a
      [] c.op = "AtomicIncrement" -> 1
      [] c.op = "AtomicDecrement" -> -1
      [] OTHER -> 0

\* C16: an atomic operation that finds x in the location stores and returns:
\* Exchange(p, v) stores v and returns x; CompareExchange(p, exchange, comp)
\* stores exchange if x = comp and leaves x otherwise, and returns x;
\* ExchangeAdd(p, d) stores x + d and returns x; Increment stores and returns
\* x + 1, Decrement x - 1 (where the sum is an int); and each leaves the
\* interrupts as it found them.
C16_AtomicResults ==
    \A t \in Workers :
        LET c == hist.last[t]
        IN  c.done =>
               /\ c.intrLeft = c.intrFound
               /\ FitsInt(c.x, AtomicAddend(c)) =>
                     /\ c.stored = AtomicExpected(c).stored
                     /\ c.ret = AtomicExpected(c).ret

\* with interrupts off from the start, a thread has decremented 0 to -1 and
\* then exchanged the -1 it compared with for 7
C16_Witness ==
    \E t \in Workers :
        /\ mem.x = 7
        /\ hist.calls[t] = MaxOps
        /\ hist.last[t].done
        /\ hist.last[t].op = "AtomicCompareExchange"
        /\ hist.last[t].x = -1
        /\ hist.last[t].b = -1
        /\ hist.last[t].a = 7
        /\ hist.last[t].stored = 7
        /\ hist.last[t].ret = -1
        /\ ~hist.last[t].intrFound
        /\ ~intr.enabled

(***************************************************************************)
(* Scenario: the main thread of a program, a thread the layer did not      *)
(* make, initialises the layer, allocates a key, and creates, starts,      *)
(* waits for and deletes threads.  The threads and the main thread set and *)
(* get their values of the key.  No allocation and no kernel call fails.   *)
(***************************************************************************)
\* calls of ThreadCreate in a run
MaxCreates == 2
\* calls of TlsSetValue and TlsGetValue each thread makes
MaxTlsCalls == 2
\* polling delays for which the clock is followed
MaxSleeps == 1

UserValues == {11, 22}

\* the stack size asked for the n-th thread: below the least size for the
\* first, above it for the others
StackSizeFor(n) == 1024 + DEFAULT_STACK_SIZE_BYTES * n

\* everything that is allocated and not released: kernel semaphores, kernel
\* threads, slot tables and control blocks
LiveObjects ==
    {<<"sema", s>> : s \in {x \in SemaIds : sema[x].live}}
        \cup {<<"thread", k>> : k \in {x \in Tids : kthread[x].live}}
        \cup {<<"tls", a>> : a \in {x \in TlsAddrs : tls[x].live}}
        \cup {<<"ctrl", a>> : a \in {x \in CtrlAddrs : ctrl[x].live}}

\* what is recorded of the calls made on a thread handle: the calls in
\* order, whether all returned OK, what was allocated before the thread was
\* created (before), by its creation (own) and after its deletion (after),
\* and whether no other thread was created or deleted in between (clean)
NoLife == [ops |-> <<>>, allOk |-> TRUE, clean |-> TRUE, before |-> {},
           own |-> {}, after |-> {}]

Init ==
    /\ StartState
    /\ \E name \in AmbientNames :
          kthread = [k \in Tids |->
                        IF k = MainThread
                        THEN [PlainThread EXCEPT !.name = name]
                        ELSE NoThread]
    /\ pc = [t \in Tids |-> IF t = MainThread THEN "idle" ELSE "none"]
    /\ mem = <<>>
    /\ hist = [phase |-> "init", key |-> NULL,
               creates |-> 0, held |-> {}, waitingFor |-> NULL,
               lastCreate |-> PTE_OS_OK,
               life |-> [k \in Workers |-> NoLife],
               lastSet |-> [t \in Tids |-> NULL],
               apart |-> [t \in Tids |-> {}],
               tlsCalls |-> [t \in Tids |-> 0]]

\* the record of the calls on the handle h after the call op with result r
LifeAfter(h, op, r) ==
    [hist.life[h] EXCEPT !.ops = Append(@, op),
                         !.allOk = @ /\ r = PTE_OS_OK]

S_OsInit ==
    /\ hist.phase = "init"
    /\ OsInit(MainThread, "none")
    /\ hist' = [hist EXCEPT
                   !.phase = IF loc'[MainThread].result = PTE_OS_OK
                             THEN "alloc" ELSE "failed"]

S_TlsAlloc ==
    /\ hist.phase = "alloc"
    /\ TlsAlloc(MainThread)
    /\ hist' = [hist EXCEPT !.phase = "run", !.key = loc'[MainThread].value]

S_Create ==
    /\ hist.phase = "run"
    /\ hist.creates < MaxCreates
    /\ ThreadCreate(MainThread, "entry", StackSizeFor(hist.creates), 18,
                    hist.creates + 1, "none")
    /\ LET r == loc'[MainThread].result
           h == loc'[MainThread].value
           others == [k \in Workers |-> [hist.life[k] EXCEPT !.clean = FALSE]]
       IN  hist' = [hist EXCEPT
                       !.creates = @ + 1,
                       !.lastCreate = r,
                       !.held = IF r = PTE_OS_OK THEN @ \cup {h} ELSE @,
                       !.life = IF r = PTE_OS_OK
                                THEN [others EXCEPT ![h] =
                                         [ops |-> <<"Create">>, allOk |-> TRUE,
                                          clean |-> TRUE, before |-> LiveObjects,
                                          own |-> LiveObjects' \ LiveObjects,
                                          after |-> {}]]
                                ELSE others]

S_Start(h) ==
    /\ hist.phase = "run"
    /\ h \in hist.held
    /\ hist.life[h].ops = <<"Create">>
    /\ ThreadStart(MainThread, h)
    /\ hist' = [hist EXCEPT
                   !.life[h] = LifeAfter(h, "Start", loc'[MainThread].result)]

S_WaitForEndCall(h) ==
    /\ hist.phase = "run"
    /\ h \in hist.held
    /\ hist.life[h].ops \in {<<"Create">>, <<"Create", "Start">>}
    /\ WaitForEndCall(MainThread, h)
    /\ hist' = [hist EXCEPT !.waitingFor = h]

S_WaitForEndPoll ==
    /\ WaitForEndPoll(MainThread)
    /\ hist' = IF pc'[MainThread] = "idle"
               THEN [hist EXCEPT
                        !.waitingFor = NULL,
                        !.life[hist.waitingFor] =
                            LifeAfter(hist.waitingFor, "WaitForEnd",
                                      loc'[MainThread].result)]
               ELSE hist

\* the caller of ThreadDelete keeps to the contract: the thread has stopped
S_Delete(h) ==
    /\ hist.phase = "run"
    /\ h \in hist.held
    /\ KReferThreadRunStatus(h) = "PSP_THREAD_STOPPED"
    /\ ThreadDelete(MainThread, h)
    /\ LET others == [k \in Workers |-> [hist.life[k] EXCEPT !.clean = FALSE]]
           mine == LifeAfter(h, "Delete", loc'[MainThread].result)
       IN  hist' = [hist EXCEPT
                       !.held = @ \ {h},
                       !.life = [others EXCEPT ![h] =
                                    [mine EXCEPT !.after = LiveObjects']]]

S_StubThreadEntry(k) ==
    /\ StubThreadEntry(k)
    /\ hist' = [hist EXCEPT !.lastSet[k] = NULL, !.tlsCalls[k] = 0,
                            !.apart[k] = {}]

S_TlsSetValue(t, v) ==
    /\ hist.phase = "run"
    /\ hist.tlsCalls[t] < MaxTlsCalls
    /\ TlsSetValue(t, hist.key, v)
    /\ hist' = [hist EXCEPT
                   !.tlsCalls[t] = @ + 1,
                   !.lastSet[t] = IF loc'[t].result = PTE_OS_OK THEN v ELSE @]

\* a get of the key by a thread that has set it; apart records the threads
\* that held a different value of the key at the time of the get
S_TlsGetValue(t) ==
    /\ hist.phase = "run"
    /\ hist.tlsCalls[t] < MaxTlsCalls
    /\ hist.lastSet[t] # NULL
    /\ TlsGetValue(t, hist.key)
    /\ hist' = [hist EXCEPT
                   !.tlsCalls[t] = @ + 1,
                   !.apart[t] = {u \in Tids \ {t} :
                                   hist.lastSet[u] \notin {NULL, hist.lastSet[t]}}]

S_EntryReturn(k) ==
    /\ EntryReturn(k, 0)
    /\ UNCHANGED hist

\* the clock matters while a thread is in a timed call; it is followed for
\* the time of MaxSleeps polling delays
S_Tick ==
    /\ \E t \in Tids : Polling(t) \/ Waiting(t)
    /\ now < MaxSleeps * POLLING_DELAY_IN_us
    /\ Tick
    /\ UNCHANGED hist

Next ==
    \/ S_OsInit
    \/ S_TlsAlloc
    \/ S_Create
    \/ \E h \in Workers : S_Start(h)
    \/ \E h \in Workers : S_WaitForEndCall(h)
    \/ S_WaitForEndPoll
    \/ \E h \in Workers : S_Delete(h)
    \/ \E k \in Workers : S_StubThreadEntry(k)
    \/ \E t \in Tids, v \in UserValues : S_TlsSetValue(t, v)
    \/ \E t \in Tids : S_TlsGetValue(t)
    \/ \E k \in Workers : S_EntryReturn(k)
    \/ S_Tick

Spec == Init /\ [][Next]_vars

\* the calls of the life of a thread, from its creation to its deletion
FullLife == <<"Create", "Start", "WaitForEnd", "Delete">>

\* C4: ThreadCreate returns OK, and so do ThreadStart, ThreadWaitForEnd and
\* ThreadDelete made in this order on the handle it gave; after ThreadDelete
\* the thread is gone, all that its creation allocated is released, and what
\* is allocated is exactly what was allocated before ThreadCreate when no
\* other thread was created or deleted in between.
C4_Lifecycle ==
    /\ hist.lastCreate = PTE_OS_OK
    /\ \A h \in Workers :
          /\ IsPrefix(hist.life[h].ops, FullLife) => hist.life[h].allOk
          /\ hist.life[h].ops # <<>> => Cardinality(hist.life[h].own) = 4
          /\ hist.life[h].ops = FullLife =>
                /\ ~ValidThread(h)
                /\ pc[h] = "none"
                /\ hist.life[h].own \cap hist.life[h].after = {}
                /\ hist.life[h].clean =>
                       hist.life[h].after = hist.life[h].before

\* a thread has been through its whole life while the main thread slept in
\* ThreadWaitForEnd, and what is allocated is what was allocated before
C4_Witness ==
    \E h \in Workers :
        /\ hist.life[h].ops = FullLife
        /\ hist.life[h].allOk
        /\ hist.life[h].clean
        /\ hist.life[h].after = hist.life[h].before
        /\ hist.life[h].before # {}
        /\ now >= POLLING_DELAY_IN_us

\* C7: a TlsGetValue of the key by a thread that ThreadCreate made returns
\* the value this thread set last, whatever the other threads have set; two
\* such threads never have the same slot table.
C7_TlsIsolation ==
    /\ \A t \in Workers :
          loc[t].op = "TlsGetValue" => loc[t].value = hist.lastSet[t]
    /\ \A t, u \in Workers :
          (t # u /\ ValidThread(t) /\ ValidThread(u)) =>
              GetTlsStructFromThread(t) \cap GetTlsStructFromThread(u) = {}

\* two created threads have each got their own value back at a time when
\* the other had set a different value
C7_Witness ==
    \E t, u \in Workers :
        /\ t # u
        /\ loc[t].op = "TlsGetValue" /\ loc[t].value = 11 /\ u \in hist.apart[t]
        /\ loc[u].op = "TlsGetValue" /\ loc[u].value = 22 /\ t \in hist.apart[u]

\* C8: once the layer is initialised, the table of a thread that
\* ThreadCreate did not make is the ambient table that pte_osInit
\* allocated, which is the table of no created thread; a TlsGetValue of the
\* key by that thread returns the value it set last.
C8_AmbientTls ==
    hist.phase = "run" =>
        /\ GetTlsStructFromThread(MainThread) = {glob.globalTls}
        /\ glob.globalTls \in TlsAddrs
        /\ tls[glob.globalTls].live
        /\ \A k \in Workers :
              ValidThread(k) => glob.globalTls \notin GetTlsStructFromThread(k)
        /\ loc[MainThread].op = "TlsGetValue" =>
               loc[MainThread].value = hist.lastSet[MainThread]

\* the main thread has got its value back at a time when a created thread
\* had set a different value in its own table
C8_Witness ==
    /\ loc[MainThread].op = "TlsGetValue"
    /\ loc[MainThread].value = 11
    /\ hist.apart[MainThread] \cap Workers # {}

(***************************************************************************)
(* Scenario: a thread that ThreadCreate made, the waiter, makes calls that *)
(* wait or look at its cancellation, while the main thread makes the       *)
(* target ready (a post to the semaphore, an unlock of the mutex that it   *)
(* holds, or the end of the thread that is waited for) and cancels the     *)
(* waiter, each at any time.  A run is of one kind: the waits are on a     *)
(* semaphore, on a mutex, or for the end of a thread.  The waiter has been *)
(* cancelled pre times before it makes its first call.                     *)
(***************************************************************************)
\* calls the waiter makes
MaxCalls == 2
\* times the main thread makes the target ready
MaxReadies == 1
\* cancels of the waiter after its first call could begin
MaxCancels == 1

Kinds == {"sema", "mutex", "join"}
TimeoutsMs == {1, 3}
PreCancels == {0, CANCEL_SEM_MAX}

\* what is recorded of the waiter's call: the operation, the time t0 and
\* the timeout T in microseconds (-1 for none), whether the target was ready
\* and the waiter cancelled when the call was made, the times at which the
\* target was first made ready and the waiter first cancelled during the
\* call (-1 for never), whether the target was ready at that cancel, the
\* probes made, and at the return the result, the time and what the
\* returning probe found (the target ready, the timeout over, the waiter's
\* cancellation semaphore above zero)
NoCur ==
    [op |-> "", done |-> TRUE, t0 |-> 0, T |-> -1, ready0 |-> FALSE,
     cancelled0 |-> FALSE, readyAt |-> -1, cancelAt |-> -1,
     readyAtCancel |-> FALSE, polls |-> 0,
     pollsAfterReady |-> 0, pollsAfterCancel |-> 0, result |-> "", at |-> -1,
     ready |-> FALSE, expired |-> FALSE, cancelled |-> FALSE]

NoCancel == [result |-> "", before |-> 0, after |-> 0, frame |-> TRUE]

InitWait ==
    /\ StartState
    /\ kthread = [k \in Tids |-> IF k = MainThread THEN PlainThread ELSE NoThread]
    /\ pc = [t \in Tids |-> IF t = MainThread THEN "idle" ELSE "none"]
    /\ mem = <<>>
    /\ \E kind \in Kinds, T \in TimeoutsMs, pre \in PreCancels :
          hist = [kind |-> kind, T |-> T, pre |-> pre, phase |-> "init",
                  res |-> NULL, A |-> NULL, csem |-> NULL, calls |-> 0,
                  cur |-> NoCur, readies |-> 0, cancels |-> 0, cancelsOk |-> 0,
                  lastCancel |-> NoCancel, seen |-> 0]

\* the semaphore that the step under way creates
NewSema == CHOOSE s \in SemaIds : sema'[s].live /\ ~sema[s].live

\* the main thread sets the scene, one call after the other
W_OsInit ==
    /\ hist.phase = "init"
    /\ OsInit(MainThread, "none")
    /\ hist' = [hist EXCEPT !.phase = hist.kind]

W_SemaphoreCreate ==
    /\ hist.phase = "sema"
    /\ SemaphoreCreate(MainThread, 0, FALSE)
    /\ hist' = [hist EXCEPT !.phase = "create", !.res = loc'[MainThread].value]

W_MutexCreate ==
    /\ hist.phase = "mutex"
    /\ MutexCreate(MainThread, FALSE)
    /\ hist' = [hist EXCEPT !.phase = "lock", !.res = loc'[MainThread].value]

W_MainLockCall ==
    /\ hist.phase = "lock"
    /\ MutexLockCall(MainThread, hist.res)
    /\ hist' = [hist EXCEPT !.phase = "locking"]

W_MainLockReturn ==
    /\ hist.phase = "locking"
    /\ MutexLockReturn(MainThread)
    /\ hist' = [hist EXCEPT !.phase = "create"]

W_CreateTarget ==
    /\ hist.phase = "join"
    /\ ThreadCreate(MainThread, "target", 0, 18, 2, "none")
    /\ hist' = [hist EXCEPT !.phase = "startTarget",
                            !.res = loc'[MainThread].value]

W_StartTarget ==
    /\ hist.phase = "startTarget"
    /\ ThreadStart(MainThread, hist.res)
    /\ hist' = [hist EXCEPT !.phase = "stubTarget"]

W_StubTarget ==
    /\ hist.phase = "stubTarget"
    /\ StubThreadEntry(hist.res)
    /\ hist' = [hist EXCEPT !.phase = "create"]

W_CreateWaiter ==
    /\ hist.phase = "create"
    /\ ThreadCreate(MainThread, "waiter", 0, 18, 1, "none")
    /\ hist' = [hist EXCEPT !.phase = "start", !.A = loc'[MainThread].value,
                            !.csem = NewSema]

W_StartWaiter ==
    /\ hist.phase = "start"
    /\ ThreadStart(MainThread, hist.A)
    /\ hist' = [hist EXCEPT !.phase = "stub"]

W_StubWaiter ==
    /\ hist.phase = "stub"
    /\ StubThreadEntry(hist.A)
    /\ hist' = [hist EXCEPT !.phase = IF hist.pre = 0 THEN "run" ELSE "cancel"]

\* the cancels made before the waiter's first call
W_PreCancel ==
    /\ hist.phase = "cancel"
    /\ ThreadCancel(MainThread, hist.A)
    /\ hist' = [hist EXCEPT
                   !.phase = IF sema'[hist.csem].count = hist.pre
                             THEN "run" ELSE "cancel"]

\* the target of the waits is ready: the semaphore or the mutex has a unit,
\* the thread has stopped
TargetReady ==
    IF hist.kind = "join"
    THEN kthread[hist.res].status = "PSP_THREAD_STOPPED"
    ELSE sema[hist.res].count >= 1

\* the record of a call that the waiter makes now, with timeout T
CurAtCall(op, T) ==
    [NoCur EXCEPT !.op = op, !.done = FALSE, !.t0 = now, !.T = T,
                  !.ready0 = TargetReady,
                  !.cancelled0 = sema[hist.csem].count > 0]

\* the record after a probe of the call, or after the kernel has ended its
\* wait; expired tells whether the timeout was over
CurAfterProbe(returned, result, expired) ==
    [hist.cur EXCEPT
        !.polls = @ + 1,
        !.pollsAfterReady = IF hist.cur.readyAt >= 0 THEN @ + 1 ELSE @,
        !.pollsAfterCancel = IF hist.cur.cancelAt >= 0 THEN @ + 1 ELSE @,
        !.done = returned,
        !.result = IF returned THEN result ELSE "",
        !.at = IF returned THEN now ELSE -1,
        !.ready = TargetReady,
        !.expired = expired,
        !.cancelled = sema[hist.csem].count > 0]

\* the waiter is about to make a call
MayCall(kinds) ==
    /\ hist.phase = "run"
    /\ hist.kind \in kinds
    /\ hist.calls < MaxCalls

\* the microseconds of the timeout pTimeout, -1 for a null pointer
TimeoutUs(pTimeout) == IF pTimeout = <<>> THEN -1 ELSE pTimeout[1] * 1000

Began(op, pTimeout) ==
    hist' = [hist EXCEPT !.calls = @ + 1,
                         !.cur = CurAtCall(op, TimeoutUs(pTimeout))]

\* the waiter's call has made a probe or has been ended by the kernel
Probed(expired) ==
    LET returned == pc'[hist.A] = "idle"
        result == IF returned THEN loc'[hist.A].result ELSE ""
    IN  hist' = [hist EXCEPT
                    !.cur = CurAfterProbe(returned, result, expired),
                    !.seen = IF result = PTE_OS_INTERRUPTED THEN @ + 1 ELSE @]

\* the kernel's timeout of a blocking wait is over
DeadlineOver == hist.cur.T >= 0 /\ now >= hist.cur.t0 + hist.cur.T

\* the timeout of a cancellable wait has been exceeded
TimeoutExceeded == hist.cur.T >= 0 /\ now - hist.cur.t0 > hist.cur.T

W_CancellablePendCall(pTimeout) ==
    /\ MayCall({"sema"})
    /\ SemaphoreCancellablePendCall(hist.A, hist.res, pTimeout)
    /\ Began("SemaphoreCancellablePend", pTimeout)

W_CancellablePendPoll ==
    /\ hist.phase = "run"
    /\ SemaphoreCancellablePendPoll(hist.A)
    /\ Probed(TimeoutExceeded)

W_WaitForEndCall ==
    /\ MayCall({"join"})
    /\ WaitForEndCall(hist.A, hist.res)
    /\ Began("ThreadWaitForEnd", <<>>)

W_WaitForEndPoll ==
    /\ hist.phase = "run"
    /\ WaitForEndPoll(hist.A)
    /\ Probed(FALSE)

W_PendCall(pTimeout) ==
    /\ MayCall({"sema"})
    /\ SemaphorePendCall(hist.A, hist.res, pTimeout)
    /\ Began("SemaphorePend", pTimeout)

W_PendReturn ==
    /\ hist.phase = "run"
    /\ SemaphorePendReturn(hist.A)
    /\ Probed(DeadlineOver)

W_MutexLockCall ==
    /\ MayCall({"mutex"})
    /\ MutexLockCall(hist.A, hist.res)
    /\ Began("MutexLock", <<>>)

W_MutexLockReturn ==
    /\ hist.phase = "run"
    /\ MutexLockReturn(hist.A)
    /\ Probed(FALSE)

W_MutexTimedLockCall ==
    /\ MayCall({"mutex"})
    /\ MutexTimedLockCall(hist.A, hist.res, hist.T)
    /\ Began("MutexTimedLock", <<hist.T>>)

W_MutexTimedLockReturn ==
    /\ hist.phase = "run"
    /\ MutexTimedLockReturn(hist.A)
    /\ Probed(DeadlineOver)

\* the waiter looks at its own cancellation
W_CheckCancel ==
    /\ MayCall(Kinds)
    /\ ThreadCheckCancel(hist.A, hist.A)
    /\ hist' = [hist EXCEPT
                   !.calls = @ + 1,
                   !.cur = [CurAtCall("ThreadCheckCancel", -1) EXCEPT
                               !.done = TRUE, !.at = now,
                               !.result = loc'[hist.A].result],
                   !.seen = IF loc'[hist.A].result = PTE_OS_INTERRUPTED
                            THEN @ + 1 ELSE @]

\* the main thread makes the target ready
MadeReady ==
    hist' = [hist EXCEPT
                !.readies = @ + 1,
                !.cur.readyAt = IF ~hist.cur.done /\ @ < 0 THEN now ELSE @]

W_Post ==
    /\ hist.phase = "run" /\ hist.kind = "sema"
    /\ hist.readies < MaxReadies
    /\ SemaphorePost(MainThread, hist.res, 1)
    /\ MadeReady

W_Unlock ==
    /\ hist.phase = "run" /\ hist.kind = "mutex"
    /\ hist.readies < MaxReadies
    /\ MutexUnlock(MainThread, hist.res)
    /\ MadeReady

W_TargetEnds ==
    /\ hist.phase = "run" /\ hist.kind = "join"
    /\ EntryReturn(hist.res, 0)
    /\ MadeReady

\* the main thread cancels the waiter; frame tells that nothing of the
\* waiter, of the kernel's threads and of the other semaphores changed
W_Cancel ==
    /\ hist.phase = "run"
    /\ hist.cancels < MaxCancels
    /\ ThreadCancel(MainThread, hist.A)
    /\ hist' = [hist EXCEPT
                   !.cancels = @ + 1,
                   !.cancelsOk = IF loc'[MainThread].result = PTE_OS_OK
                                 THEN @ + 1 ELSE @,
                   !.lastCancel =
                       [result |-> loc'[MainThread].result,
                        before |-> sema[hist.csem].count,
                        after |-> sema'[hist.csem].count,
                        frame |-> /\ kthread' = kthread
                                  /\ pc' = pc
                                  /\ loc'[hist.A] = loc[hist.A]
                                  /\ \A x \in SemaIds \ {hist.csem} :
                                        sema'[x] = sema[x]],
                   !.cur.cancelAt = IF ~hist.cur.done /\ @ < 0 THEN now ELSE @,
                   !.cur.readyAtCancel =
                       IF ~hist.cur.done /\ hist.cur.cancelAt < 0
                       THEN TargetReady ELSE @]

W_Tick ==
    /\ \E t \in Tids : Polling(t) \/ Waiting(t)
    /\ Tick
    /\ UNCHANGED hist

NextWait ==
    \/ W_OsInit
    \/ W_SemaphoreCreate
    \/ W_MutexCreate
    \/ W_MainLockCall
    \/ W_MainLockReturn
    \/ W_CreateTarget
    \/ W_StartTarget
    \/ W_StubTarget
    \/ W_CreateWaiter
    \/ W_StartWaiter
    \/ W_StubWaiter
    \/ W_PreCancel
    \/ \E pTimeout \in {<<>>, <<hist.T>>} : W_CancellablePendCall(pTimeout)
    \/ W_CancellablePendPoll
    \/ W_WaitForEndCall
    \/ W_WaitForEndPoll
    \/ \E pTimeout \in {<<>>, <<hist.T>>} : W_PendCall(pTimeout)
    \/ W_PendReturn
    \/ W_MutexLockCall
    \/ W_MutexLockReturn
    \/ W_MutexTimedLockCall
    \/ W_MutexTimedLockReturn
    \/ W_CheckCancel
    \/ W_Post
    \/ W_Unlock
    \/ W_TargetEnds
    \/ W_Cancel
    \/ W_Tick

SpecWait == InitWait /\ [][NextWait]_vars

CancellableOps == {"SemaphoreCancellablePend", "ThreadWaitForEnd"}
BlockingOps == {"MutexLock", "MutexTimedLock", "SemaphorePend"}

\* the waiter was not cancelled when it made its call and has not been since
NotCancelled == ~hist.cur.cancelled0 /\ hist.cur.cancelAt < 0

\* what a probe of a cancellable wait returns with: the target comes first,
\* then the timeout, then the cancellation
ProtocolResult(c) ==
    IF c.ready THEN PTE_OS_OK
    ELSE IF c.expired THEN PTE_OS_TIMEOUT
    ELSE PTE_OS_INTERRUPTED

\* C2, as amended: when the waiter is cancelled while it is inside
\* SemaphoreCancellablePend or ThreadWaitForEnd, the call returns at its
\* first probe after the cancel, which is made within one polling delay of
\* the cancel; it returns INTERRUPTED unless that probe finds the target
\* ready (then OK) or, the target not ready, the timeout exceeded (then
\* TIMEOUT).
C2_CancelEndsWait ==
    (hist.cur.op \in CancellableOps /\ hist.cur.cancelAt >= 0) =>
        /\ ~hist.cur.done =>
              /\ hist.cur.pollsAfterCancel = 0
              /\ now <= hist.cur.cancelAt + POLLING_DELAY_IN_us
        /\ hist.cur.done =>
              /\ hist.cur.pollsAfterCancel = 1
              /\ hist.cur.at <= hist.cur.cancelAt + POLLING_DELAY_IN_us
              /\ hist.cur.result = ProtocolResult(hist.cur)

\* a wait on a target that never got ready was cancelled during a delay and
\* returned INTERRUPTED at the end of that delay
C2_Witness ==
    /\ hist.cur.op \in CancellableOps
    /\ ~hist.cur.cancelled0
    /\ hist.cur.cancelAt >= 0
    /\ hist.cur.done
    /\ hist.cur.result = PTE_OS_INTERRUPTED
    /\ hist.cur.at > hist.cur.cancelAt
    /\ hist.cur.readyAt < 0

\* C2, as stated: when the waiter is cancelled while it is inside
\* SemaphoreCancellablePend or ThreadWaitForEnd, in the delay after a probe
\* and on a target that is not ready then, the call returns INTERRUPTED
\* within one polling delay of the cancel, whether or not the target
\* becomes ready after the cancel.
C2_AsStated ==
    (/\ hist.cur.op \in CancellableOps
     /\ hist.cur.cancelAt >= 0
     /\ ~hist.cur.readyAtCancel
     /\ hist.cur.polls > hist.cur.pollsAfterCancel) =>
        /\ now <= hist.cur.cancelAt + POLLING_DELAY_IN_us \/ hist.cur.done
        /\ hist.cur.done =>
              /\ hist.cur.at <= hist.cur.cancelAt + POLLING_DELAY_IN_us
              /\ hist.cur.result = PTE_OS_INTERRUPTED

\* C5: a SemaphoreCancellablePend with a timeout T, made on a semaphore of
\* count 0 by a thread that is not cancelled, and posted to less than T
\* after the call began, makes no probe after the post that leaves it
\* waiting: its first probe after the post returns, with OK.
C5_PostBeforeTimeout ==
    (/\ hist.cur.op = "SemaphoreCancellablePend"
     /\ hist.cur.T >= 0
     /\ ~hist.cur.ready0
     /\ NotCancelled
     /\ hist.cur.readyAt >= 0
     /\ hist.cur.readyAt - hist.cur.t0 < hist.cur.T) =>
        /\ ~hist.cur.done => hist.cur.pollsAfterReady = 0
        /\ hist.cur.done =>
              /\ hist.cur.pollsAfterReady = 1
              /\ hist.cur.result = PTE_OS_OK

\* the post came before T was over and the probe that found it after T
C5_Witness ==
    /\ hist.cur.op = "SemaphoreCancellablePend"
    /\ hist.cur.T >= 0
    /\ ~hist.cur.ready0
    /\ NotCancelled
    /\ hist.cur.readyAt > hist.cur.t0
    /\ hist.cur.readyAt - hist.cur.t0 < hist.cur.T
    /\ hist.cur.done
    /\ hist.cur.result = PTE_OS_OK
    /\ hist.cur.at - hist.cur.t0 > hist.cur.T

\* C6: a SemaphorePend or SemaphoreCancellablePend with a timeout T, made by
\* a thread that is not cancelled on a semaphore whose count is 0 and stays
\* 0, returns TIMEOUT, not before T and not after T plus one polling delay
\* from the call (the time of the model goes in steps, and a probe takes
\* none).
C6_TimeoutWindow ==
    (/\ hist.cur.op \in {"SemaphorePend", "SemaphoreCancellablePend"}
     /\ hist.cur.T >= 0
     /\ ~hist.cur.ready0
     /\ hist.cur.readyAt < 0
     /\ NotCancelled) =>
        /\ ~hist.cur.done =>
              now - hist.cur.t0 <= hist.cur.T + POLLING_DELAY_IN_us
        /\ hist.cur.done =>
              /\ hist.cur.result = PTE_OS_TIMEOUT
              /\ hist.cur.at - hist.cur.t0 >= hist.cur.T
              /\ hist.cur.at - hist.cur.t0 <= hist.cur.T + POLLING_DELAY_IN_us

\* a SemaphoreCancellablePend has timed out at a probe made after T
C6_Witness ==
    /\ hist.cur.op = "SemaphoreCancellablePend"
    /\ hist.cur.T >= 0
    /\ ~hist.cur.ready0
    /\ hist.cur.readyAt < 0
    /\ NotCancelled
    /\ hist.cur.done
    /\ hist.cur.result = PTE_OS_TIMEOUT
    /\ hist.cur.at - hist.cur.t0 > hist.cur.T
    /\ hist.cur.polls >= 2

\* C9: the count of the waiter's cancellation signal is the number of the
\* cancels that returned OK, whatever ThreadCheckCancel and the cancellable
\* waits have returned since; and a call made by a thread that has been
\* cancelled returns INTERRUPTED when it is ThreadCheckCancel, and at its
\* first probe, with INTERRUPTED unless the target is ready or the timeout
\* exceeded, when it is a cancellable wait.
C9_CancelIsSticky ==
    hist.phase = "run" =>
        /\ sema[hist.csem].count = hist.pre + hist.cancelsOk
        /\ (hist.cur.done /\ hist.cur.cancelled0) =>
              /\ hist.cur.op = "ThreadCheckCancel" =>
                     hist.cur.result = PTE_OS_INTERRUPTED
              /\ hist.cur.op \in CancellableOps =>
                     /\ hist.cur.polls = 1
                     /\ (~hist.cur.ready /\ ~hist.cur.expired) =>
                            hist.cur.result = PTE_OS_INTERRUPTED
        /\ (~hist.cur.done /\ hist.cur.cancelled0) =>
               hist.cur.op \notin CancellableOps \/ hist.cur.polls = 0

\* after one cancel the waiter has seen INTERRUPTED twice, the second time
\* from a cancellable wait, and the signal is still there
C9_Witness ==
    /\ hist.phase = "run"
    /\ hist.pre = 0
    /\ hist.cancelsOk = 1
    /\ hist.seen = 2
    /\ hist.cur.op \in CancellableOps
    /\ hist.cur.cancelled0
    /\ hist.cur.result = PTE_OS_INTERRUPTED
    /\ sema[hist.csem].count = 1

\* what a cancel has changed, apart from the count and its own result
CancelFrame == hist.lastCancel.result # "" => hist.lastCancel.frame

\* a wait that cannot be cancelled has returned only with the unit it
\* waited for or at the end of its own timeout
BlockingReturns ==
    (hist.cur.op \in BlockingOps /\ hist.cur.done) =>
        \/ hist.cur.result = PTE_OS_OK /\ hist.cur.ready
        \/ hist.cur.result = PTE_OS_TIMEOUT /\ hist.cur.expired

\* C10, as amended: ThreadCancel adds one to the target's cancellation
\* signal and returns OK while the count is below 255; at 255 it leaves the
\* count and returns GENERAL_FAILURE; it changes nothing else of the target
\* or of the kernel's threads, and a thread in MutexLock, MutexTimedLock or
\* SemaphorePend returns only with the unit it waits for or when its own
\* timeout is over.
C10_CancelIsCooperative ==
    /\ CancelFrame
    /\ BlockingReturns
    /\ (hist.lastCancel.result # ""
          /\ hist.lastCancel.before < CANCEL_SEM_MAX) =>
           /\ hist.lastCancel.after = hist.lastCancel.before + 1
           /\ hist.lastCancel.result = PTE_OS_OK
    /\ (hist.lastCancel.result # ""
          /\ hist.lastCancel.before = CANCEL_SEM_MAX) =>
           /\ hist.lastCancel.after = CANCEL_SEM_MAX
           /\ hist.lastCancel.result = PTE_OS_GENERAL_FAILURE

\* the waiter is still blocked in MutexLock some time after a cancel of it
\* has returned OK
C10_Witness ==
    /\ hist.cur.op = "MutexLock"
    /\ ~hist.cur.done
    /\ Blocked(hist.A)
    /\ hist.cur.cancelAt >= 0
    /\ now > hist.cur.cancelAt
    /\ hist.lastCancel.result = PTE_OS_OK
    /\ hist.lastCancel.after = 1

\* C10, as stated: ThreadCancel adds one to the target's cancellation signal
\* and returns OK; it changes nothing else of the target, and a thread in
\* MutexLock, MutexTimedLock or SemaphorePend returns only with the unit it
\* waits for or when its own timeout is over.
C10_AsStated ==
    /\ CancelFrame
    /\ BlockingReturns
    /\ hist.lastCancel.result # "" =>
           /\ hist.lastCancel.after = hist.lastCancel.before + 1
           /\ hist.lastCancel.result = PTE_OS_OK

(***************************************************************************)
(* Scenario: the main thread initialises the layer and creates threads     *)
(* while allocations and kernel calls can fail; threads are started, end,  *)
(* are deleted by the main thread or delete themselves on exit; the main   *)
(* thread can also be handed to ThreadDelete, and asks whether it has been *)
(* cancelled.                                                              *)
(***************************************************************************)
CreateFaults ==
    {"none", "tlsInit", "malloc", "createSema", "noMemory", "createThread"}

LiveTables == {a \in TlsAddrs : tls[a].live}
LiveBlocks == {a \in CtrlAddrs : ctrl[a].live}
LiveKernelObjects ==
    {<<"sema", s>> : s \in {x \in SemaIds : sema[x].live}}
        \cup {<<"thread", k>> : k \in {x \in Tids : kthread[x].live}}

\* what is recorded of a call of ThreadCreate: the step it got to ("tls",
\* "malloc" or "kernel"), what sceKernelCreateThread answered when it was
\* called, the result, the handle written to the caller (NULL for none), and
\* what was allocated before and after the call
NoCreate ==
    [called |-> FALSE, reached |-> "", threadId |-> 0, result |-> "",
     value |-> NULL, tablesBefore |-> {}, tablesAfter |-> {},
     blocksBefore |-> {}, blocksAfter |-> {},
     kernelBefore |-> {}, kernelAfter |-> {}]

InitCreate ==
    /\ StartState
    /\ \E name \in AmbientNames :
          kthread = [k \in Tids |->
                        IF k = MainThread
                        THEN [PlainThread EXCEPT !.name = name]
                        ELSE NoThread]
    /\ pc = [t \in Tids |-> IF t = MainThread THEN "idle" ELSE "none"]
    /\ mem = <<>>
    /\ hist = [phase |-> "init", creates |-> 0, held |-> {},
               last |-> NoCreate, results |-> {},
               ambientTls |-> NULL, ambientCtrl |-> NULL,
               ambientDeleted |-> FALSE, checked |-> FALSE,
               staleRead |-> FALSE]

K_OsInit ==
    /\ hist.phase = "init"
    /\ OsInit(MainThread, "none")
    /\ hist' = [hist EXCEPT
                   !.phase = IF loc'[MainThread].result = PTE_OS_OK
                             THEN "run" ELSE "failed",
                   !.ambientTls = glob'.globalTls,
                   !.ambientCtrl = IF glob'.globalTls \in TlsAddrs
                                   THEN tls'[glob'.globalTls].slot[
                                            glob'.threadDataKey]
                                   ELSE NULL]

K_Create(fault) ==
    /\ hist.phase = "run"
    /\ hist.creates < MaxCreates
    /\ ThreadCreate(MainThread, "entry", StackSizeFor(hist.creates), 18,
                    hist.creates + 1, fault)
    /\ LET r == loc'[MainThread].result
           h == loc'[MainThread].value
           pTls == PteTlsThreadInit(fault = "tlsInit")
           pThreadData == Malloc(fault = "malloc")
           reached == IF pTls = NULL THEN "tls"
                      ELSE IF pThreadData = NULL THEN "malloc"
                      ELSE "kernel"
       IN  hist' = [hist EXCEPT
                       !.creates = @ + 1,
                       !.held = IF r = PTE_OS_OK THEN @ \cup {h} ELSE @,
                       !.results = @ \cup {r},
                       !.last = [called |-> TRUE, reached |-> reached,
                                 threadId |-> IF reached = "kernel"
                                              THEN KCreateThread(fault)
                                              ELSE 0,
                                 result |-> r, value |-> h,
                                 tablesBefore |-> LiveTables,
                                 tablesAfter |-> LiveTables',
                                 blocksBefore |-> LiveBlocks,
                                 blocksAfter |-> LiveBlocks',
                                 kernelBefore |-> LiveKernelObjects,
                                 kernelAfter |-> LiveKernelObjects']]

K_Start(h) ==
    /\ h \in hist.held
    /\ pc[h] = "none"
    /\ ThreadStart(MainThread, h)
    /\ UNCHANGED hist

K_StubThreadEntry(k) ==
    /\ StubThreadEntry(k)
    /\ UNCHANGED hist

K_EntryReturn(k) ==
    /\ EntryReturn(k, 0)
    /\ UNCHANGED hist

\* the main thread deletes a thread it has created, once that has stopped
K_Delete(h) ==
    /\ h \in hist.held
    /\ KReferThreadRunStatus(h) = "PSP_THREAD_STOPPED"
    /\ ThreadDelete(MainThread, h)
    /\ hist' = [hist EXCEPT !.held = @ \ {h}]

\* ThreadDelete is called on the handle of the main thread, which
\* ThreadCreate did not make
K_DeleteAmbient ==
    /\ hist.phase = "run"
    /\ ~hist.ambientDeleted
    /\ ThreadDelete(MainThread, MainThread)
    /\ hist' = [hist EXCEPT !.ambientDeleted = TRUE]

\* a thread made by ThreadCreate ends with ThreadExitAndDelete on its own
\* handle
K_ExitAndDelete(k) ==
    /\ k \in hist.held
    /\ ThreadExitAndDelete(k, k)
    /\ hist' = [hist EXCEPT !.held = @ \ {k}]

\* the main thread asks whether it has been cancelled; staleRead records
\* that the control block it read had been freed
K_CheckCancel ==
    /\ hist.phase = "run"
    /\ ~hist.checked
    /\ ThreadCheckCancel(MainThread, MainThread)
    /\ hist' = [hist EXCEPT
                   !.checked = TRUE,
                   !.staleRead = \E p \in GetThreadData(MainThread) :
                                    p \notin LiveBlocks]

NextCreate ==
    \/ K_OsInit
    \/ \E fault \in CreateFaults : K_Create(fault)
    \/ \E h \in Workers : K_Start(h)
    \/ \E k \in Workers : K_StubThreadEntry(k)
    \/ \E k \in Workers : K_EntryReturn(k)
    \/ \E h \in Workers : K_Delete(h)
    \/ K_DeleteAmbient
    \/ \E k \in Workers : K_ExitAndDelete(k)
    \/ K_CheckCancel

SpecCreate == InitCreate /\ [][NextCreate]_vars

\* the result pte_osThreadCreate has to give for what happened in the call
CreateOutcome(c) ==
    IF c.reached \in {"tls", "malloc"} THEN PTE_OS_NO_RESOURCES
    ELSE IF c.threadId = SCE_KERNEL_ERROR_NO_MEMORY THEN PTE_OS_NO_RESOURCES
    ELSE IF c.threadId < 0 THEN PTE_OS_GENERAL_FAILURE
    ELSE PTE_OS_OK

\* C11: a call of ThreadCreate returns NO_RESOURCES when the slot table or
\* the control block cannot be allocated or the kernel reports that it is
\* out of memory, GENERAL_FAILURE when the kernel fails to create the thread
\* for another reason, and OK otherwise; when it fails, the tables and
\* control blocks that are allocated are those allocated before the call and
\* no handle is written; when it succeeds, the handle of the new thread is
\* written.
C11_CreateErrors ==
    hist.last.called =>
        LET c == hist.last
        IN  /\ c.result = CreateOutcome(c)
            /\ c.result # PTE_OS_OK =>
                  /\ c.value = NULL
                  /\ c.tablesAfter = c.tablesBefore
                  /\ c.blocksAfter = c.blocksBefore
            /\ c.result = PTE_OS_OK =>
                  /\ c.value = c.threadId
                  /\ <<"thread", c.value>> \in c.kernelAfter \ c.kernelBefore

\* a call has succeeded, and the last call failed in the kernel for a reason
\* other than memory, after its table and control block were allocated
C11_Witness ==
    /\ PTE_OS_OK \in hist.results
    /\ hist.last.called
    /\ hist.last.reached = "kernel"
    /\ hist.last.threadId = SCE_KERNEL_ERROR_ERROR
    /\ hist.last.result = PTE_OS_GENERAL_FAILURE

\* C14: the slot table and the control block that pte_osInit made for the
\* threads the layer did not create stay allocated whatever handles
\* ThreadDelete and ThreadExitAndDelete are called on, and a CheckCancel of
\* such a thread reads a control block that is allocated.
C14_AmbientNeverReleased ==
    hist.phase = "run" =>
        /\ hist.ambientTls \in LiveTables
        /\ hist.ambientCtrl \in LiveBlocks
        /\ ~hist.staleRead

\* they stay allocated as long as ThreadDelete is called only on handles
\* that ThreadCreate returned
C14_ManagedHandlesOnly ==
    (hist.phase = "run" /\ ~hist.ambientDeleted) =>
        /\ hist.ambientTls \in LiveTables
        /\ hist.ambientCtrl \in LiveBlocks
        /\ ~hist.staleRead

\* C20: a call of ThreadCreate that returns an error leaves the kernel's
\* semaphores and threads as they were before the call: the cancellation
\* semaphore it created has been deleted again.
C20_FailedCreateLeavesNothing ==
    (hist.last.called /\ hist.last.result # PTE_OS_OK) =>
        hist.last.kernelAfter = hist.last.kernelBefore

\* a call that fails before the cancellation semaphore is created leaves
\* the kernel's objects as they were
C20_EarlyFailureLeavesNothing ==
    (hist.last.called /\ hist.last.reached \in {"tls", "malloc"}) =>
        hist.last.kernelAfter = hist.last.kernelBefore

(***************************************************************************)
(* Scenario: waits on objects that may be gone, by a caller that may have  *)
(* no control block.  The main thread initialises the layer (the           *)
(* allocation of its control block can fail), makes a semaphore and a      *)
(* mutex, and then pends on the semaphore, waits for the end of a thread   *)
(* that does not exist, and locks and unlocks the mutex; a second thread   *)
(* of the program posts the semaphore, cancels the main thread, and        *)
(* deletes the semaphore and the mutex.                                    *)
(***************************************************************************)
Helper == MainThread + 1
Absent == MaxThreads
InitialCounts == {0, 1}
PostCounts == {1, 2}
PendTimeouts == {<<>>, <<1>>}

\* what is recorded of the call in progress or last made by the main
\* thread: for the polling loops whether an iteration was made, whether in
\* one of them the kernel answered the probe of the target with an error,
\* the time of the last one, and whether two of them were less than the
\* polling delay apart; for every call that has returned, the kernel's
\* last answer, the result, whether the call took one unit from the
\* semaphore it named and whether it left every semaphore as it was
NoErrCall ==
    [op |-> "", iterated |-> FALSE, erred |-> FALSE, lastAt |-> 0,
     short |-> FALSE,
     returned |-> FALSE, status |-> 0, result |-> "", took |-> FALSE,
     unchanged |-> FALSE]

InitErr ==
    /\ StartState
    /\ kthread = [k \in Tids |->
                     IF k \in {MainThread, Helper} THEN PlainThread
                     ELSE NoThread]
    /\ pc = [t \in Tids |-> IF t \in {MainThread, Helper} THEN "idle" ELSE "none"]
    /\ mem = <<>>
    /\ hist = [phase |-> "init", osInit |-> "", sem |-> NULL, mtx |-> NULL,
               v |-> 0, posted |-> 0, okPends |-> 0, posts |-> 0,
               cancels |-> 0, calls |-> 0, locked |-> FALSE,
               cur |-> NoErrCall]

E_OsInit(fault) ==
    /\ hist.phase = "init"
    /\ OsInit(MainThread, fault)
    /\ hist' = [hist EXCEPT !.phase = "sem",
                            !.osInit = loc'[MainThread].result]

E_SemaphoreCreate(v) ==
    /\ hist.phase = "sem"
    /\ SemaphoreCreate(MainThread, v, FALSE)
    /\ hist' = [hist EXCEPT !.phase = "mtx", !.v = v,
                            !.sem = loc'[MainThread].value]

E_MutexCreate ==
    /\ hist.phase = "mtx"
    /\ MutexCreate(MainThread, FALSE)
    /\ hist' = [hist EXCEPT !.phase = "run", !.mtx = loc'[MainThread].value]

MayWait ==
    /\ hist.phase = "run"
    /\ hist.calls < MaxCalls

ErrCall(op) == [NoErrCall EXCEPT !.op = op]

\* the record after an iteration of a polling loop in which the kernel
\* answered the probe of the target with status
ErrIteration(status) ==
    [hist.cur EXCEPT
        !.iterated = TRUE,
        !.erred = @ \/ status \notin {SCE_KERNEL_ERROR_OK,
                                      SCE_KERNEL_ERROR_WAIT_TIMEOUT},
        !.short = @ \/ (hist.cur.iterated
                          /\ now - hist.cur.lastAt < POLLING_DELAY_IN_us),
        !.lastAt = now,
        !.status = status]

\* the record after a call on the semaphore or mutex h has returned
ErrReturn(c, h) ==
    [c EXCEPT
        !.returned = TRUE,
        !.result = loc'[MainThread].result,
        !.took = ValidSema(h) /\ sema' = [sema EXCEPT ![h].count = @ - 1],
        !.unchanged = sema' = sema]

OkPendsAfter ==
    IF pc'[MainThread] = "idle" /\ loc'[MainThread].result = PTE_OS_OK
    THEN hist.okPends + 1
    ELSE hist.okPends

E_CancellablePendCall(pTimeout) ==
    /\ MayWait
    /\ SemaphoreCancellablePendCall(MainThread, hist.sem, pTimeout)
    /\ hist' = [hist EXCEPT !.calls = @ + 1,
                            !.cur = ErrCall("SemaphoreCancellablePend")]

E_CancellablePendPoll ==
    /\ SemaphoreCancellablePendPoll(MainThread)
    /\ LET c == ErrIteration(KPollSema(hist.sem))
       IN  hist' = [hist EXCEPT
                       !.okPends = OkPendsAfter,
                       !.cur = IF pc'[MainThread] = "idle"
                               THEN ErrReturn(c, hist.sem)
                               ELSE c]

E_WaitForEndCall ==
    /\ MayWait
    /\ WaitForEndCall(MainThread, Absent)
    /\ hist' = [hist EXCEPT !.calls = @ + 1,
                            !.cur = ErrCall("ThreadWaitForEnd")]

E_WaitForEndPoll ==
    /\ WaitForEndPoll(MainThread)
    /\ LET c == ErrIteration(KReferThreadRunStatusResult(Absent))
       IN  hist' = [hist EXCEPT
                       !.cur = IF pc'[MainThread] = "idle"
                               THEN ErrReturn(c, NULL)
                               ELSE c]

E_PendCall(pTimeout) ==
    /\ MayWait
    /\ SemaphorePendCall(MainThread, hist.sem, pTimeout)
    /\ hist' = [hist EXCEPT !.calls = @ + 1, !.cur = ErrCall("SemaphorePend")]

E_PendReturn ==
    /\ SemaphorePendReturn(MainThread)
    /\ hist' = [hist EXCEPT
                   !.okPends = OkPendsAfter,
                   !.cur = ErrReturn(
                              [hist.cur EXCEPT !.status =
                                  CHOOSE st \in KWaitSemaResults(MainThread) :
                                     TRUE],
                              hist.sem)]

E_MutexTimedLockCall ==
    /\ MayWait
    /\ MutexTimedLockCall(MainThread, hist.mtx, 1)
    /\ hist' = [hist EXCEPT !.calls = @ + 1, !.cur = ErrCall("MutexTimedLock")]

E_MutexTimedLockReturn ==
    /\ MutexTimedLockReturn(MainThread)
    /\ hist' = [hist EXCEPT
                   !.locked = @ \/ loc'[MainThread].result = PTE_OS_OK,
                   !.cur = ErrReturn(
                              [hist.cur EXCEPT !.status =
                                  CHOOSE st \in KWaitSemaResults(MainThread) :
                                     TRUE],
                              hist.mtx)]

E_MutexUnlock ==
    /\ hist.locked
    /\ MutexUnlock(MainThread, hist.mtx)
    /\ hist' = [hist EXCEPT !.locked = FALSE]

E_Post(count) ==
    /\ hist.phase = "run"
    /\ hist.posts < MaxReadies
    /\ SemaphorePost(Helper, hist.sem, count)
    /\ hist' = [hist EXCEPT
                   !.posts = @ + 1,
                   !.posted = IF KSignalSema(hist.sem, count) = SCE_KERNEL_ERROR_OK
                              THEN @ + count ELSE @]

\* the main thread is cancelled; it has a control block
E_Cancel ==
    /\ hist.phase = "run"
    /\ hist.osInit = PTE_OS_OK
    /\ hist.cancels < MaxCancels
    /\ ThreadCancel(Helper, MainThread)
    /\ hist' = [hist EXCEPT !.cancels = @ + 1]

E_SemaphoreDelete ==
    /\ hist.phase = "run"
    /\ ValidSema(hist.sem)
    /\ SemaphoreDelete(Helper, hist.sem)
    /\ UNCHANGED hist

E_MutexDelete ==
    /\ hist.phase = "run"
    /\ ValidSema(hist.mtx)
    /\ MutexDelete(Helper, hist.mtx)
    /\ UNCHANGED hist

\* the clock is followed while the main thread is in a timed call, for the
\* time of two polling delays
E_Tick ==
    /\ Polling(MainThread) \/ Waiting(MainThread)
    /\ now < 2 * POLLING_DELAY_IN_us
    /\ Tick
    /\ UNCHANGED hist

NextErr ==
    \/ \E fault \in {"none", "malloc"} : E_OsInit(fault)
    \/ \E v \in InitialCounts : E_SemaphoreCreate(v)
    \/ E_MutexCreate
    \/ \E pTimeout \in PendTimeouts : E_CancellablePendCall(pTimeout)
    \/ E_CancellablePendPoll
    \/ E_WaitForEndCall
    \/ E_WaitForEndPoll
    \/ \E pTimeout \in PendTimeouts : E_PendCall(pTimeout)
    \/ E_PendReturn
    \/ E_MutexTimedLockCall
    \/ E_MutexTimedLockReturn
    \/ E_MutexUnlock
    \/ \E count \in PostCounts : E_Post(count)
    \/ E_Cancel
    \/ E_SemaphoreDelete
    \/ E_MutexDelete
    \/ E_Tick

SpecErr == InitErr /\ [][NextErr]_vars

\* C12: when the kernel answers a probe of the target in a cancellable wait
\* with an error other than "not yet met", the wait ends at that probe with
\* GENERAL_FAILURE.
C12_ProbeErrorEndsWait ==
    (hist.cur.op \in {"SemaphoreCancellablePend", "ThreadWaitForEnd"}
        /\ hist.cur.erred) =>
        /\ hist.cur.returned
        /\ hist.cur.result = PTE_OS_GENERAL_FAILURE

\* C15: pte_osMutexTimedLock returns OK or TIMEOUT and nothing else: OK
\* exactly when the kernel's wait succeeded, and then one unit of the mutex
\* was taken; TIMEOUT for every other answer of the kernel, that of a mutex
\* that has been deleted included, and then no semaphore was changed.
C15_TimedLockResults ==
    (hist.cur.op = "MutexTimedLock" /\ hist.cur.returned) =>
        /\ hist.cur.result \in {PTE_OS_OK, PTE_OS_TIMEOUT}
        /\ hist.cur.result = PTE_OS_OK <=> hist.cur.status = SCE_KERNEL_ERROR_OK
        /\ hist.cur.result = PTE_OS_OK => hist.cur.took
        /\ hist.cur.result = PTE_OS_TIMEOUT => hist.cur.unchanged

\* a timed lock of the deleted mutex has returned TIMEOUT
C15_Witness ==
    /\ hist.cur.op = "MutexTimedLock"
    /\ hist.cur.returned
    /\ hist.cur.status = SCE_KERNEL_ERROR_UNKNOWN_SEMID
    /\ hist.cur.result = PTE_OS_TIMEOUT
    /\ ~ValidSema(hist.mtx)

\* a timed lock of the mutex the caller holds has timed out, and one of the
\* free mutex has succeeded
C15_WitnessTimeout ==
    /\ hist.cur.op = "MutexTimedLock"
    /\ hist.cur.returned
    /\ hist.cur.status = SCE_KERNEL_ERROR_WAIT_TIMEOUT
    /\ hist.locked

\* C18: between two iterations of a cancellable wait the caller sleeps for
\* the polling delay, also when it has no control block.
C18_SleepBetweenProbes ==
    hist.cur.op \in {"SemaphoreCancellablePend", "ThreadWaitForEnd"} =>
        ~hist.cur.short

\* a caller that has a control block sleeps between its iterations
C18_SleepsWithControlBlock ==
    (hist.osInit = PTE_OS_OK
        /\ hist.cur.op \in {"SemaphoreCancellablePend", "ThreadWaitForEnd"}) =>
        ~hist.cur.short

\* C19: a SemaphorePend or SemaphoreCancellablePend that returns OK has taken
\* exactly one unit from the semaphore, and one that returns anything else
\* has changed no semaphore; the count of the semaphore is its initial value
\* plus the counts posted minus the number of pends that returned OK, and is
\* not negative.
C19_SemaphoreCount ==
    /\ ValidSema(hist.sem) =>
          /\ sema[hist.sem].count = hist.v + hist.posted - hist.okPends
          /\ sema[hist.sem].count >= 0
    /\ (hist.cur.op \in {"SemaphorePend", "SemaphoreCancellablePend"}
           /\ hist.cur.returned) =>
          /\ hist.cur.result = PTE_OS_OK => hist.cur.took
          /\ hist.cur.result # PTE_OS_OK => hist.cur.unchanged

\* two units were posted at once and two pends have returned OK, the second
\* of them a cancellable one
C19_Witness ==
    /\ ValidSema(hist.sem)
    /\ hist.posted = 2
    /\ hist.okPends = 2
    /\ hist.cur.op = "SemaphoreCancellablePend"
    /\ hist.cur.returned
    /\ hist.cur.result = PTE_OS_OK
    /\ sema[hist.sem].count = hist.v

(***************************************************************************)
(* The order of the checks in an iteration of the cancellable pend, in the *)
(* scenario of the waits of a waiter, a poster and a canceller.            *)
(***************************************************************************)
\* C17: the iteration of SemaphoreCancellablePend that returns has looked at
\* the semaphore first, at the timeout second and at the cancellation last:
\* it returns OK when it found a unit, also when the timeout was over and
\* the caller cancelled; TIMEOUT when it found no unit and the timeout was
\* over, also when the caller was cancelled; INTERRUPTED only when it found
\* no unit and the timeout was absent or not over.
C17_CheckOrder ==
    (hist.cur.op = "SemaphoreCancellablePend" /\ hist.cur.done) =>
        /\ hist.cur.ready => hist.cur.result = PTE_OS_OK
        /\ (~hist.cur.ready /\ hist.cur.expired) =>
              hist.cur.result = PTE_OS_TIMEOUT
        /\ hist.cur.result = PTE_OS_INTERRUPTED =>
              /\ ~hist.cur.ready
              /\ ~hist.cur.expired
              /\ hist.cur.cancelled

\* a pend has returned TIMEOUT though its caller was cancelled, the timeout
\* being over at the first probe after the cancel
C17_WitnessTimeout ==
    /\ hist.cur.op = "SemaphoreCancellablePend"
    /\ hist.cur.done
    /\ ~hist.cur.ready
    /\ hist.cur.expired
    /\ hist.cur.cancelled
    /\ hist.cur.result = PTE_OS_TIMEOUT

\* a pend has returned OK though its caller was cancelled and the timeout
\* over
C17_Witness ==
    /\ hist.cur.op = "SemaphoreCancellablePend"
    /\ hist.cur.done
    /\ hist.cur.ready
    /\ hist.cur.expired
    /\ hist.cur.cancelled
    /\ hist.cur.result = PTE_OS_OK

(***************************************************************************)
(* Scenario: the names of the kernel's objects.  The main thread makes a   *)
(* mutex or a semaphore that it keeps, and then makes and deletes others   *)
(* of the same class, one at a time, as often as it likes.                 *)
(***************************************************************************)
NameClasses == {"mutex", "pthread_sem"}

InitNames ==
    /\ StartState
    /\ kthread = [k \in Tids |-> IF k = MainThread THEN PlainThread ELSE NoThread]
    /\ pc = [t \in Tids |-> IF t = MainThread THEN "idle" ELSE "none"]
    /\ mem = <<>>
    /\ \E class \in NameClasses :
          hist = [class |-> class, kept |-> NULL, other |-> NULL]

\* the next object is made: the first is kept, the others are deleted again
Made ==
    hist' = IF hist.kept = NULL
            THEN [hist EXCEPT !.kept = loc'[MainThread].value]
            ELSE [hist EXCEPT !.other = loc'[MainThread].value]

N_MutexCreate ==
    /\ hist.class = "mutex"
    /\ hist.other = NULL
    /\ MutexCreate(MainThread, FALSE)
    /\ Made

N_MutexDelete ==
    /\ hist.class = "mutex"
    /\ hist.other # NULL
    /\ MutexDelete(MainThread, hist.other)
    /\ hist' = [hist EXCEPT !.other = NULL]

N_SemaphoreCreate ==
    /\ hist.class = "pthread_sem"
    /\ hist.other = NULL
    /\ SemaphoreCreate(MainThread, 0, FALSE)
    /\ Made

N_SemaphoreDelete ==
    /\ hist.class = "pthread_sem"
    /\ hist.other # NULL
    /\ SemaphoreDelete(MainThread, hist.other)
    /\ hist' = [hist EXCEPT !.other = NULL]

NextNames ==
    \/ N_MutexCreate
    \/ N_MutexDelete
    \/ N_SemaphoreCreate
    \/ N_SemaphoreDelete

SpecNames == InitNames /\ [][NextNames]_vars

\* the objects of a class that are alive
LiveOfClass(class) == {s \in SemaIds : sema[s].live /\ sema[s].name[1] = class}

\* C13: two objects of one class that are alive at the same time carry the
\* same value of the wrapping counter in their names only if more objects of
\* the class are alive than the ceiling of the counter.
C13_NamesCollideOnlyAboveCeiling ==
    \A class \in NameClasses :
        \A s1, s2 \in LiveOfClass(class) :
            (s1 # s2 /\ sema[s1].name = sema[s2].name) =>
                Cardinality(LiveOfClass(class)) > MAX_PSP_UID

\* when two names collide, two objects are alive and no more: the first
\* one made, which was kept, and one made after the counter has gone round
C13_NamesDifferBeforeWrap ==
    \A class \in NameClasses :
        \A s1, s2 \in LiveOfClass(class) :
            (s1 # s2 /\ sema[s1].name = sema[s2].name) =>
                /\ hist.kept \in {s1, s2}
                /\ sema[hist.kept].name[2] = 1
                /\ Cardinality(LiveOfClass(class)) = 2

(***************************************************************************)
(* The counts of the kernel's semaphores behind a mutex and behind a       *)
(* thread's cancellation signal.  The main thread creates a mutex and a    *)
(* thread; then the two threads lock and unlock the mutex in any order,    *)
(* unlocking also what is not locked, and the main thread cancels the      *)
(* other as often as it likes.  hist keeps the handles, and for the last   *)
(* MutexUnlock and the last ThreadCancel the result and the count before   *)
(* and after.                                                              *)
(***************************************************************************)
NoSignal == [result |-> "", before |-> -1, after |-> -1]

InitBounds ==
    /\ StartState
    /\ kthread = [k \in Tids |-> IF k = MainThread THEN PlainThread ELSE NoThread]
    /\ pc = [t \in Tids |-> IF t = MainThread THEN "idle" ELSE "none"]
    /\ mem = <<>>
    /\ hist = [phase |-> "init", m |-> NULL, A |-> NULL, csem |-> NULL,
               lastUnlock |-> NoSignal, lastCancel |-> NoSignal]

B_OsInit ==
    /\ hist.phase = "init"
    /\ OsInit(MainThread, "none")
    /\ hist' = [hist EXCEPT !.phase = "mutex"]

B_MutexCreate ==
    /\ hist.phase = "mutex"
    /\ MutexCreate(MainThread, FALSE)
    /\ hist' = [hist EXCEPT !.phase = "create", !.m = loc'[MainThread].value]

B_ThreadCreate ==
    /\ hist.phase = "create"
    /\ ThreadCreate(MainThread, "other", 0, 18, 1, "none")
    /\ hist' = [hist EXCEPT !.phase = "start", !.A = loc'[MainThread].value,
                            !.csem = NewSema]

B_ThreadStart ==
    /\ hist.phase = "start"
    /\ ThreadStart(MainThread, hist.A)
    /\ hist' = [hist EXCEPT !.phase = "stub"]

B_StubThreadEntry ==
    /\ hist.phase = "stub"
    /\ StubThreadEntry(hist.A)
    /\ hist' = [hist EXCEPT !.phase = "run"]

\* the two threads of the scene
Lockers == {MainThread, hist.A}

B_MutexLockCall(t) ==
    /\ hist.phase = "run"
    /\ MutexLockCall(t, hist.m)
    /\ UNCHANGED hist

B_MutexLockReturn(t) ==
    /\ hist.phase = "run"
    /\ MutexLockReturn(t)
    /\ UNCHANGED hist

B_MutexUnlock(t) ==
    /\ hist.phase = "run"
    /\ MutexUnlock(t, hist.m)
    /\ hist' = [hist EXCEPT
                   !.lastUnlock = [result |-> loc'[t].result,
                                   before |-> sema[hist.m].count,
                                   after |-> sema'[hist.m].count]]

B_ThreadCancel ==
    /\ hist.phase = "run"
    /\ ThreadCancel(MainThread, hist.A)
    /\ hist' = [hist EXCEPT
                   !.lastCancel = [result |-> loc'[MainThread].result,
                                   before |-> sema[hist.csem].count,
                                   after |-> sema'[hist.csem].count]]

NextBounds ==
    \/ B_OsInit
    \/ B_MutexCreate
    \/ B_ThreadCreate
    \/ B_ThreadStart
    \/ B_StubThreadEntry
    \/ \E t \in Lockers : B_MutexLockCall(t)
    \/ \E t \in Lockers : B_MutexLockReturn(t)
    \/ \E t \in Lockers : B_MutexUnlock(t)
    \/ B_ThreadCancel

SpecBounds == InitBounds /\ [][NextBounds]_vars

\* the semaphores behind the mutexes, and those behind the cancellation
\* signals: the one of pte_osInit and the ones in the control blocks
MutexSemas == {s \in SemaIds : sema[s].live /\ sema[s].name[1] = "mutex"}

CancelSemas ==
    {s \in SemaIds :
        /\ sema[s].live
        /\ sema[s].name[1] \in {"pthread_cancelSem", "pthread_cancelSemGlobal"}}

\* C21: a mutex's count is always 0 or 1, and MutexUnlock on a mutex that is
\* not locked leaves the count at 1 and returns OK; a cancellation signal's
\* count is always between 0 and 255, and ThreadCancel at 255 leaves it at
\* 255 and returns GENERAL_FAILURE, while below 255 it returns OK
C21_CountBounds ==
    /\ \A s \in MutexSemas : sema[s].count \in {0, 1}
    /\ \A s \in CancelSemas : sema[s].count \in 0..CANCEL_SEM_MAX
    /\ hist.lastUnlock # NoSignal =>
          /\ hist.lastUnlock.result = PTE_OS_OK
          /\ hist.lastUnlock.after = 1
    /\ hist.lastCancel # NoSignal =>
          IF hist.lastCancel.before = CANCEL_SEM_MAX
          THEN /\ hist.lastCancel.after = CANCEL_SEM_MAX
               /\ hist.lastCancel.result = PTE_OS_GENERAL_FAILURE
          ELSE /\ hist.lastCancel.after = hist.lastCancel.before + 1
               /\ hist.lastCancel.result = PTE_OS_OK

\* a mutex that was not locked has been unlocked, and the thread has been
\* cancelled with its count at 255
C21_Witness ==
    /\ hist.lastUnlock.before = 1
    /\ hist.lastUnlock.after = 1
    /\ hist.lastUnlock.result = PTE_OS_OK
    /\ hist.lastCancel.before = CANCEL_SEM_MAX
    /\ hist.lastCancel.result = PTE_OS_GENERAL_FAILURE
    /\ \E s \in MutexSemas : sema[s].count = 1

(***************************************************************************)
(* Termination of the two polling loops.  The main thread, with the        *)
(* ambient control block or (pte_osInit having failed) with none, makes a  *)
(* semaphore and a thread and then calls SemaphoreCancellablePend, with    *)
(* and without a timeout, and ThreadWaitForEnd.  A second thread of the    *)
(* program posts the semaphore and cancels the main thread, and the        *)
(* created thread ends and is then deleted under a ThreadWaitForEnd, each  *)
(* at any time or never.  The scene is played until EventsBy, and the      *)
(* clock is followed for two polling delays more, which is when a probe    *)
(* that follows the last event has been made; for a ThreadWaitForEnd,      *)
(* which looks only at whether the clock has reached the end of its        *)
(* delay, the clock is followed for ever, its origin being moved when it   *)
(* reaches MaxTime.  hist keeps the handles, the numbers of calls, posts   *)
(* and cancels, whether the created thread has stopped, whether a cancel   *)
(* has reached the main thread, and the results that the returns of the    *)
(* two loops gave after at least one delay.                                *)
(***************************************************************************)
EventsBy == MaxTime - 2 * POLLING_DELAY_IN_us

InitLive ==
    /\ StartState
    /\ kthread = [k \in Tids |->
                     IF k \in {MainThread, Helper} THEN PlainThread
                     ELSE NoThread]
    /\ pc = [t \in Tids |-> IF t \in {MainThread, Helper} THEN "idle" ELSE "none"]
    /\ mem = <<>>
    /\ hist = [phase |-> "init", osInit |-> "", sem |-> NULL, A |-> NULL,
               calls |-> 0, posts |-> 0, cancels |-> 0, stopped |-> FALSE,
               cancelled |-> FALSE, slept |-> FALSE, late |-> {}]

L_OsInit(fault) ==
    /\ hist.phase = "init"
    /\ OsInit(MainThread, fault)
    /\ hist' = [hist EXCEPT !.phase = "sem",
                            !.osInit = loc'[MainThread].result]

L_SemaphoreCreate ==
    /\ hist.phase = "sem"
    /\ SemaphoreCreate(MainThread, 0, FALSE)
    /\ hist' = [hist EXCEPT !.phase = "create", !.sem = loc'[MainThread].value]

L_ThreadCreate ==
    /\ hist.phase = "create"
    /\ ThreadCreate(MainThread, "target", 0, 18, 1, "none")
    /\ hist' = [hist EXCEPT !.phase = "start", !.A = loc'[MainThread].value]

L_ThreadStart ==
    /\ hist.phase = "start"
    /\ ThreadStart(MainThread, hist.A)
    /\ hist' = [hist EXCEPT !.phase = "stub"]

L_StubThreadEntry ==
    /\ hist.phase = "stub"
    /\ StubThreadEntry(hist.A)
    /\ hist' = [hist EXCEPT !.phase = "run"]

\* the scene is still being played
Playing == hist.phase = "run" /\ now <= EventsBy

L_CancellablePendCall(pTimeout) ==
    /\ Playing
    /\ hist.calls < MaxCalls
    /\ SemaphoreCancellablePendCall(MainThread, hist.sem, pTimeout)
    /\ hist' = [hist EXCEPT !.calls = @ + 1, !.slept = FALSE]

L_WaitForEndCall ==
    /\ Playing
    /\ hist.calls < MaxCalls
    /\ WaitForEndCall(MainThread, hist.A)
    /\ hist' = [hist EXCEPT !.calls = @ + 1, !.slept = FALSE]

\* the record after a step of a loop of the main thread
AfterPoll ==
    IF pc'[MainThread] = "idle"
    THEN [hist EXCEPT
             !.late = IF hist.slept
                      THEN @ \cup {<<loc'[MainThread].op, loc'[MainThread].result>>}
                      ELSE @]
    ELSE [hist EXCEPT !.slept = @ \/ ~loc'[MainThread].spin]

L_CancellablePendPoll ==
    /\ SemaphoreCancellablePendPoll(MainThread)
    /\ hist' = AfterPoll

L_WaitForEndPoll ==
    /\ WaitForEndPoll(MainThread)
    /\ hist' = AfterPoll

L_Post ==
    /\ Playing
    /\ hist.posts < MaxReadies
    /\ SemaphorePost(Helper, hist.sem, 1)
    /\ hist' = [hist EXCEPT !.posts = @ + 1]

\* the main thread is cancelled; it has a control block
L_Cancel ==
    /\ Playing
    /\ hist.osInit = PTE_OS_OK
    /\ hist.cancels < MaxCancels
    /\ ThreadCancel(Helper, MainThread)
    /\ hist' = [hist EXCEPT !.cancels = @ + 1,
                            !.cancelled = @ \/ loc'[Helper].result = PTE_OS_OK]

L_TargetEnds ==
    /\ Playing
    /\ EntryReturn(hist.A, 0)
    /\ hist' = [hist EXCEPT !.stopped = TRUE]

\* the second thread deletes the created thread, which has stopped, while
\* the main thread is in ThreadWaitForEnd
L_ThreadDelete ==
    /\ Playing
    /\ pc[MainThread] = "ThreadWaitForEnd"
    /\ hist.stopped
    /\ ValidThread(hist.A)
    /\ ThreadDelete(Helper, hist.A)
    /\ UNCHANGED hist

L_Tick ==
    /\ hist.phase = "run"
    /\ Tick
    /\ UNCHANGED hist

\* the origin of the clock is moved by one polling delay while the main
\* thread is between two probes of ThreadWaitForEnd, whose locals hold no
\* other time than the end of the delay
L_MoveOrigin ==
    /\ hist.phase = "run"
    /\ now >= MaxTime
    /\ pc[MainThread] = "ThreadWaitForEnd"
    /\ ~Due(MainThread)
    /\ now' = now - POLLING_DELAY_IN_us
    /\ loc' = [loc EXCEPT ![MainThread].wake =
                  IF loc[MainThread].spin THEN @ ELSE @ - POLLING_DELAY_IN_us]
    /\ UNCHANGED <<sema, kthread, tls, ctrl, glob, mem, intr, pc, hist>>

NextLive ==
    \/ \E fault \in {"none", "malloc"} : L_OsInit(fault)
    \/ L_SemaphoreCreate
    \/ L_ThreadCreate
    \/ L_ThreadStart
    \/ L_StubThreadEntry
    \/ \E pTimeout \in PendTimeouts : L_CancellablePendCall(pTimeout)
    \/ L_CancellablePendPoll
    \/ L_WaitForEndCall
    \/ L_WaitForEndPoll
    \/ L_Post
    \/ L_Cancel
    \/ L_TargetEnds
    \/ L_ThreadDelete
    \/ L_Tick
    \/ L_MoveOrigin

\* the scheduler lets a thread that can make its next probe make it, and
\* the clock goes on
SpecLive ==
    /\ InitLive
    /\ [][NextLive]_vars
    /\ WF_vars(L_CancellablePendPoll)
    /\ WF_vars(L_WaitForEndPoll)
    /\ WF_vars(L_Tick)
    /\ WF_vars(L_MoveOrigin)

TimedPendUnderWay ==
    /\ pc[MainThread] = "SemaphoreCancellablePend"
    /\ loc[MainThread].timeoutEnabled

WaitForEndUnderWay == pc[MainThread] = "ThreadWaitForEnd"

MainReturned(op) ==
    /\ pc[MainThread] = "idle"
    /\ loc[MainThread].op = op

\* what the returns of the two loops may give: a pend one of four results,
\* a ThreadWaitForEnd never TIMEOUT, OK only if the joined thread has
\* stopped and INTERRUPTED only if the caller has been cancelled
LoopResults ==
    /\ MainReturned("SemaphoreCancellablePend") =>
          loc[MainThread].result \in
             {PTE_OS_OK, PTE_OS_TIMEOUT, PTE_OS_INTERRUPTED,
              PTE_OS_GENERAL_FAILURE}
    /\ MainReturned("ThreadWaitForEnd") =>
          \/ loc[MainThread].result = PTE_OS_OK /\ hist.stopped
          \/ loc[MainThread].result = PTE_OS_INTERRUPTED /\ hist.cancelled

\* C22: with the clock advancing and a fair scheduler, a
\* SemaphoreCancellablePend called with a timeout always returns, with OK,
\* TIMEOUT, INTERRUPTED or GENERAL_FAILURE; a ThreadWaitForEnd returns once
\* the joined thread has stopped or the caller has been cancelled, never
\* with TIMEOUT, and it does not return without the one or the other
C22_Termination ==
    /\ TimedPendUnderWay ~> MainReturned("SemaphoreCancellablePend")
    /\ (WaitForEndUnderWay /\ (hist.stopped \/ hist.cancelled))
          ~> MainReturned("ThreadWaitForEnd")
    /\ []LoopResults

\* what holds in its place: the pend with a timeout returns, the
\* ThreadWaitForEnd of a cancelled caller returns, and the ThreadWaitForEnd
\* on a thread that has stopped returns unless the thread is deleted first
C22_TerminationUnlessDeleted ==
    /\ TimedPendUnderWay ~> MainReturned("SemaphoreCancellablePend")
    /\ (WaitForEndUnderWay /\ hist.cancelled)
          ~> MainReturned("ThreadWaitForEnd")
    /\ (WaitForEndUnderWay /\ hist.stopped)
          ~> (MainReturned("ThreadWaitForEnd") \/ ~ValidThread(hist.A))
    /\ []LoopResults

\* the joined thread has stopped and has been deleted, and the caller of
\* ThreadWaitForEnd, not cancelled, is in its loop after a delay
C22_StillWaiting ==
    /\ WaitForEndUnderWay
    /\ hist.stopped /\ ~ValidThread(hist.A)
    /\ ~hist.cancelled
    /\ hist.slept
    /\ now >= MaxTime

====
